---- MODULE Spec2Model ----
(***************************************************************************)
(* A model of the PPO training engine of safelife (src/agents/ppo.py):     *)
(* engine construction (option validation, environment wrapping, graph     *)
(* build, session, checkpoint restore), the training loop (rollout         *)
(* collection, minibatch training, checkpoint cadence, telemetry cadence)  *)
(* and the checkpoint files the engine leaves in its log directory.        *)
(*                                                                         *)
(* One behaviour is an engine process and its successor over one log       *)
(* directory: a process constructs an engine, may call train() once, and   *)
(* ends by returning or by an exception; the successor runs the same       *)
(* script and finds the files the first process left, possibly moved or    *)
(* damaged in between.                                                     *)
(*                                                                         *)
(* Beside the engine the module models three programs that share nothing   *)
(* with it: the function discounted_rewards of src/agents/ppo.py, the      *)
(* Connect4 environment and its Game wrapper (src/muzero/games/connect4.py)*)
(* and the interactive GameLoop (src/safelife/game_loop.py). Each has a    *)
(* specification of its own in which the engine does not run.              *)
(***************************************************************************)
EXTENDS Integers, Sequences, FiniteSets, TLC

\* ----------------------------------------------------------------- bounds

\* total_steps of a train() call ranges over 0..MaxTotal
MaxTotal == 3
\* steps_per_env of a train() call ranges over 1..MaxT
MaxT == 2
\* the number of environments handed to the constructor ranges over 1..MaxN
MaxN == 2
\* report_every of a train() call ranges over 1..MaxR
MaxR == 3
\* save_every of a train() call ranges over 1..MaxS
MaxS == 2
\* an environment step reports done only while num_episodes < MaxEpisodes
MaxEpisodes == 2
\* at most MaxKw options are passed to one constructor call (SpecCfg)
MaxKw == 2
\* batch_size of a train() call ranges over 1..MaxB (SpecBatch)
MaxB == 3
\* discounted_rewards is given 0..MaxLen rewards (SpecDiscount)
MaxLen == 3
\* at most MaxFree steps of a Connect4 game leave its script (SpecConnect4)
MaxFree == 2
\* a GameLoop reads at most MaxKeys keys while it plays (SpecLoop)
MaxKeys == 3

\* ------------------------------------------------------- program constants

\* PPO.max_gradient_norm, the class default
DefaultMaxGradientNorm == 5
\* train_batch(epochs=3), the default
DefaultEpochs == 3
\* Connect4.board, numpy.zeros((6, 7))
Rows == 6
Cols == 7
\* Game.step returns reward * 10
RewardScale == 10

\* ----------------------------------------------------------------- numbers

\* A hyperparameter or a probability: the fraction num / den.
Frac(num, den) == [num |-> num, den |-> den]

FracMul(a, b) == Frac(a.num * b.num, a.den * b.den)

FracAdd(a, b) == Frac(a.num * b.den + b.num * a.den, a.den * b.den)

FracEq(a, b) == a.num * b.den = b.num * a.den

\* PPO.gamma, PPO.lmda and PPO.reward_clip, the class defaults
DefaultGamma == Frac(99, 100)
DefaultLmda == Frac(95, 100)
DefaultRewardClip == Frac(0, 1)

\* Rewards, values, returns and advantages are whole multiples of 1 / Unit.
\* With hyperparameters in tenths and rewards and values in whole numbers
\* the advantages of a rollout of T timesteps have 2T - 1 decimal places.
Unit == 10 ^ (2 * MaxT - 1)

\* q * x for a fraction q; defined only when the product is a multiple of
\* 1 / Unit, so that nothing is ever rounded.
Mul(q, x) == CHOOSE y \in {(q.num * x) \div q.den} : y * q.den = q.num * x

\* np.sign
Sign(x) == IF x > 0 THEN 1 ELSE IF x < 0 THEN -1 ELSE 0

\* ------------------------------------------------------------ option names

\* An option name is the pair of its first character and the rest, so that
\* key.startswith('_') is computed from the name.
Nm(first, rest) == <<first, rest>>

StartsWithUnderscore(key) == key[1] = "_"

\* The data attributes of class PPO (lines 82-97).
DataAttrs ==
    { Nm("g", "amma"), Nm("l", "mda"), Nm("l", "earning_rate"),
      Nm("e", "ntropy_reg"), Nm("e", "ntropy_clip"), Nm("v", "f_coef"),
      Nm("m", "ax_gradient_norm"), Nm("e", "ps_clip"), Nm("r", "eward_clip"),
      Nm("v", "alue_grad_rescaling"), Nm("p", "olicy_rectifier"),
      Nm("s", "cale_prob_clipping"), Nm("v", "ideo_freq"),
      Nm("_", "params_loaded") }

\* The methods of class PPO: attributes whose value is callable.
MethodAttrs ==
    { Nm("_", "_init__"), Nm("s", "ave_checkpoint"), Nm("r", "estore_checkpoint"),
      Nm("b", "uild_graph"), Nm("b", "uild_optimizer"),
      Nm("b", "uild_logits_and_values"), Nm("g", "en_batch"),
      Nm("n", "ext_video_name"), Nm("t", "rain_batch"), Nm("l", "og_episode"),
      Nm("t", "rain") }

\* hasattr(self, key) while the options are validated: the instance has no
\* attribute of its own yet (envs, num_steps, ... are assigned later), so
\* only class attributes and the options already set are found.
HasAttr(set, key) == key \in DataAttrs \cup MethodAttrs \cup set

\* callable(getattr(self, key)); option values are plain numbers and strings.
IsCallable(key) == key \in MethodAttrs

\* Variant of Recognized without the test of the leading underscore.
MutAcceptsUnderscore(set, key) == HasAttr(set, key) /\ ~IsCallable(key)

\* Variant of Recognized without the hasattr and callable tests.
MutAcceptsAnyName(set, key) == ~StartsWithUnderscore(key)

\* __init__, lines 101-102: the option is taken.
Recognized(set, key) ==
    /\ ~StartsWithUnderscore(key)
    /\ HasAttr(set, key)
    /\ ~IsCallable(key)

\* Names a caller may pass: every data attribute, a method, and names the
\* class does not have (one of them an instance attribute assigned later).
KwNames ==
    DataAttrs \cup { Nm("t", "rain"), Nm("l", "ambda"), Nm("n", "um_env"),
                     Nm("n", "um_steps") }

\* Values a caller may pass for an option.
KwVals == {0, 1}

\* A Python value where its type matters: a string, an int, a bool or None.
PyStr(s) == [type |-> "str", s |-> s, n |-> 0]
PyInt(n) == [type |-> "int", s |-> "", n |-> n]
PyBool(b) == [type |-> "bool", s |-> "", n |-> IF b THEN 1 ELSE 0]
PyNone == [type |-> "NoneType", s |-> "", n |-> 0]

\* bool(v): the empty string, zero, False and None are false.
Truthy(v) ==
    CASE v.type = "str" -> v.s # ""
      [] v.type \in {"int", "bool"} -> v.n # 0
      [] OTHER -> FALSE

\* v == 'text' for a string literal.
EqualsStr(v, text) == v.type = "str" /\ v.s = text

\* PPO.value_grad_rescaling, the class default.
DefaultValueGradRescaling == PyStr("smooth")

\* Values a caller may pass for value_grad_rescaling.
RescalingVals ==
    { PyStr("smooth"), PyStr("per_batch"), PyStr("per_state"), PyStr("none"),
      PyStr(""), PyBool(FALSE), PyNone, PyInt(0) }

KwValsOf(key) ==
    IF key = Nm("v", "alue_grad_rescaling") THEN RescalingVals ELSE KwVals

\* The options a caller may pass: a name and a value for it.
KwPairs(names) ==
    UNION { { [key |-> k, val |-> v] : v \in KwValsOf(k) } : k \in names }

\* Sequences of at most n options with pairwise distinct names (a dict).
KwargSeqs(n, names) ==
    { s \in UNION { [1..m -> KwPairs(names)] : m \in 0..n } :
        \A i, j \in DOMAIN s : i # j => s[i].key # s[j].key }

\* The options the processes of the training specification are started with:
\* none, a non-positive max_gradient_norm, or a name the class does not have.
TrainKwargs ==
    { <<>>,
      <<[key |-> Nm("m", "ax_gradient_norm"), val |-> 0]>>,
      <<[key |-> Nm("l", "ambda"), val |-> 1]>> }

\* ------------------------------------------------------------------- paths

\* A path or a line of text is a sequence of tokens: a double quote, a path
\* separator, a directory name, the base name model-<n>, the field name of
\* the pointer record, or other text without quote and separator.
Quote == [k |-> "quote", n |-> 0]
Sep == [k |-> "sep", n |-> 0]
Dir(d) == [k |-> "dir", n |-> d]
ModelName(n) == [k |-> "model", n |-> n]
FieldName == [k |-> "model_checkpoint_path:", n |-> 0]
Junk == [k |-> "junk", n |-> 0]

\* The log directories a run may live in: "1" and "2/1".
LogDirs == { <<Dir(1)>>, <<Dir(2), Sep, Dir(1)>> }

\* os.path.join(dir, base)
JoinPath(dir, base) == dir \o <<Sep>> \o base

\* os.path.split(path)[1]: what follows the last separator.
RECURSIVE BaseName(_)
BaseName(path) ==
    IF path = <<>> THEN <<>>
    ELSE IF path[Len(path)] = Sep THEN <<>>
    ELSE BaseName(SubSeq(path, 1, Len(path) - 1)) \o <<path[Len(path)]>>

QuoteAt(line) == { i \in 1..Len(line) : line[i] = Quote }

SetMax(S) == CHOOSE x \in S : \A y \in S : y <= x

\* re.match(r'.*"(.+)"', line): the opening quotes after which a closing
\* quote follows at least one character later.
Openers(line) ==
    { i \in QuoteAt(line) : \E j \in QuoteAt(line) : j >= i + 2 }

HasMatch(line) == Openers(line) # {}

\* match.group(1): '.*' is greedy, so the opener is the last possible one,
\* and '.+' is greedy, so the group runs to the last quote of the line.
MatchGroup(line) ==
    SubSeq(line, SetMax(Openers(line)) + 1, SetMax(QuoteAt(line)) - 1)

\* ------------------------------------------------------------------- state

VARIABLES
    pc,             \* where the current process stands
    error,          \* the exception that ended the process, if any
    runs,           \* 1 in the first process, 2 in its successor
    kwargs,         \* the options of the constructor call not yet looked at
    attrs,          \* instance attributes set from options: name -> value
    nenv,           \* how many environments the constructor is given
    eng,            \* what the constructor has set up so far
    tfvars,         \* the session's variables num_steps, num_episodes, params
    num_steps,      \* self.num_steps
    num_episodes,   \* self.num_episodes
    fs,             \* the log directory: its path, pointer record, checkpoints
    kw,             \* the keyword arguments the script calls train() with
    total_steps,    \* the total_steps of the train() call
    last_save,      \* train()'s local last_save
    recent_states,  \* self.recent_states, a deque
    training_stats, \* self.training_stats, a deque
    t,              \* gen_batch: the timestep of the rollout loop
    e,              \* gen_batch: the next environment to step
    states,         \* gen_batch: the local list states
    mask,           \* gen_batch: the local list mask
    actions,        \* gen_batch: the local list actions
    old_policy,     \* gen_batch: the local list old_policy
    rewards,        \* gen_batch: the local list rewards
    values,         \* gen_batch: the local list values, one row per model call
    policies,       \* gen_batch: the policies of the current timestep
    idx,            \* shuffle_arrays: the permutation it drew
    trained,        \* train_batch: how many optimizer steps the cycle has run
    reports,        \* what log_episode wrote in the cycle under way
    world,          \* what the environments and the model put out
    transitions,    \* history: the environment steps of the cycle, as taken
    cyc,            \* history: the current training cycle
    call,           \* history: the current train() call
    last_ckpt,      \* history: what the latest save_checkpoint call saved
    dr,             \* a call of discounted_rewards: arguments and result
    c4,             \* a Connect4 environment and the steps taken in it
    gl              \* a GameLoop, the game it plays and the keys it has read

vars == <<pc, error, runs, kwargs, attrs, nenv, eng, tfvars, num_steps,
          num_episodes, fs, kw, total_steps, last_save, recent_states, training_stats,
          t, e, states, mask, actions, old_policy, rewards, values, policies,
          idx, trained, reports, world, transitions, cyc, call,
          last_ckpt, dr, c4, gl>>

ctorVars == <<kwargs, attrs, nenv, eng>>
counterVars == <<num_steps, num_episodes>>
trainVars == <<kw, total_steps, last_save, recent_states, training_stats>>
batchVars == <<t, e, states, mask>>
rolloutVars == <<actions, old_policy, rewards, values, policies>>
optVars == <<idx, trained>>
histVars == <<cyc, call, last_ckpt>>
\* the other programs of the repository, which the engine never touches
otherVars == <<dr, c4, gl>>

NoError == [type |-> "none", at |-> "none"]

\* Nothing set up: no environment wrapped, no graph, session, log writer or
\* saver, and the pointer record not opened.
NoEngine ==
    [envs |-> 0, graph |-> FALSE, rescaling |-> "unbuilt", grads2 |-> "unbound",
     session |-> FALSE, writer |-> FALSE, saver |-> FALSE, read |-> FALSE]

\* tf.constant(0) initializers (lines 175-176); params stands for the
\* trainable variables, smoothed_pseudo_entropy among them, as the number
\* of optimizer steps that produced their values.
ZeroVars == [num_steps |-> 0, num_episodes |-> 0, params |-> 0]

EmptyDir(dir) == [dir |-> dir, has_pointer |-> FALSE, line |-> <<>>, ckpts |-> <<>>]

\* The keyword arguments a training script may call train() with; epochs
\* is left to train_batch's default.
TrainArgs ==
    [report_every : 1..MaxR, save_every : 1..MaxS, steps_per_env : 1..MaxT,
     batch_size : {1}, epochs : {DefaultEpochs}]

\* info of an environment step that reports done, as the environment's
\* wrapper fills it.
Info(reward, length) == [episode_reward |-> reward, episode_length |-> length]

\* Environments that give reward 0 and a model that gives value 0 and one
\* action: nothing but the counters tells two rollouts apart.
PlainWorld ==
    [rfun |-> "zero", episodic |-> TRUE, ifun |-> "plain",
     vfun |-> "zero", pfun |-> "one_action", perms |-> {"identity"}]

\* env.step: the info of a step that reports done, for each of the
\* environments a world may have.
InfoOf(ifun, state) ==
    CASE ifun = "plain" -> Info(0, 1)
      [] ifun = "by_state" -> Info(state % 3, (state % 2) + 1)

\* env.step: the reward of the step taken in a state, for each of the
\* environments a world may have.
RewardOf(rfun, state) ==
    CASE rfun = "zero" -> 0
      [] rfun = "cycle3" -> ((state % 3) - 1) * 2 * Unit

\* session.run(op.v): the value the model with these parameters gives a
\* state, for each of the models a world may have.
ValueOf(vfun, params, state) ==
    CASE vfun = "zero" -> 0
      [] vfun = "one" -> Unit
      [] vfun = "id" -> (state + params) * Unit

\* session.run(op.policy): the action probabilities the model with these
\* parameters gives a state.
PolicyOf(pfun, params, state) ==
    CASE pfun = "one_action" -> <<Frac(1, 1)>>
      [] pfun = "uniform2" -> <<Frac(1, 2), Frac(1, 2)>>
      [] pfun = "certain2" ->
            IF state % 2 = 0
            THEN <<Frac(0, 1), Frac(1, 1)>>
            ELSE <<Frac(1, 1), Frac(0, 1)>>
      [] pfun = "skew2" ->
            IF (state + params) % 2 = 0
            THEN <<Frac(1, 4), Frac(3, 4)>>
            ELSE <<Frac(3, 4), Frac(1, 4)>>

NoCycle ==
    [start_steps |-> 0, start_episodes |-> 0, saved |-> FALSE,
     flushed |-> FALSE, flushed_at |-> 0]

NoCallHistory ==
    [entry_steps |-> 0, cycles |-> 0, saves |-> 0, recorded |-> 0, appended |-> 0]

NoCheckpoint ==
    [valid |-> FALSE, dir |-> <<>>, num_steps |-> 0, num_episodes |-> 0,
     params |-> 0]


\* The memory of a process that has just started: the script is the same,
\* so the environments and train()'s keyword arguments are.
FreshProcess(options) ==
    /\ pc' = "kwargs"
    /\ error' = NoError
    /\ kwargs' = options
    /\ attrs' = <<>>
    /\ eng' = NoEngine
    /\ tfvars' = ZeroVars
    /\ num_steps' = 0
    /\ num_episodes' = 0
    /\ total_steps' = 0
    /\ last_save' = 0
    /\ recent_states' = <<>>
    /\ training_stats' = <<>>
    /\ t' = 0
    /\ e' = 0
    /\ states' = <<>>
    /\ mask' = <<>>
    /\ actions' = <<>>
    /\ old_policy' = <<>>
    /\ rewards' = <<>>
    /\ values' = <<>>
    /\ policies' = <<>>
    /\ idx' = <<>>
    /\ trained' = 0
    /\ reports' = <<>>
    /\ transitions' = <<>>
    /\ cyc' = NoCycle
    /\ call' = NoCallHistory

InitProcess(options, args) ==
    /\ pc = "kwargs"
    /\ error = NoError
    /\ runs = 1
    /\ kwargs \in options
    /\ attrs = <<>>
    /\ nenv \in 1..MaxN
    /\ eng = NoEngine
    /\ tfvars = ZeroVars
    /\ num_steps = 0
    /\ num_episodes = 0
    /\ fs = EmptyDir(<<Dir(1)>>)
    /\ kw \in args
    /\ total_steps = 0
    /\ last_save = 0
    /\ recent_states = <<>>
    /\ training_stats = <<>>
    /\ t = 0
    /\ e = 0
    /\ states = <<>>
    /\ mask = <<>>
    /\ actions = <<>>
    /\ old_policy = <<>>
    /\ rewards = <<>>
    /\ values = <<>>
    /\ policies = <<>>
    /\ idx = <<>>
    /\ trained = 0
    /\ reports = <<>>
    /\ transitions = <<>>
    /\ cyc = NoCycle
    /\ call = NoCallHistory
    /\ last_ckpt = NoCheckpoint

\* No other program of the repository runs beside the engine.
NotRunning == [pc |-> "none"]

NoOtherProgram == dr = NotRunning /\ c4 = NotRunning /\ gl = NotRunning

\* The first process starts in an empty log directory.
Init == InitProcess(TrainKwargs, TrainArgs) /\ world = PlainWorld /\ NoOtherProgram

Raise(type, at) ==
    /\ pc' = "raised"
    /\ error' = [type |-> type, at |-> at]

\* ------------------------------------------------------------- constructor

\* getattr(self, name): the instance attribute, else the class attribute.
GetAttr(name, default) == IF name \in DOMAIN attrs THEN attrs[name] ELSE default

\* setattr(self, key, val)
SetAttr(key, val) ==
    [x \in (DOMAIN attrs) \cup {key} |-> IF x = key THEN val ELSE attrs[x]]

\* __init__, lines 100-105: one iteration of the loop over the options, or
\* the end of the loop.
InitKwargs ==
    /\ pc = "kwargs"
    /\ IF kwargs = <<>>
       THEN /\ pc' = "envs"
            /\ UNCHANGED <<error, kwargs, attrs>>
       ELSE IF Recognized(DOMAIN attrs, Head(kwargs).key)
       THEN /\ attrs' = SetAttr(Head(kwargs).key, Head(kwargs).val)
            /\ kwargs' = Tail(kwargs)
            /\ UNCHANGED <<pc, error>>
       ELSE /\ Raise("ValueError: Unrecognized parameter", "kwargs")
            /\ UNCHANGED <<kwargs, attrs>>
    /\ UNCHANGED <<runs, nenv, eng, tfvars, counterVars, fs, trainVars,
                   batchVars, histVars>>
    /\ UNCHANGED <<rolloutVars, optVars, reports, world, transitions,
                   otherVars>>

\* __init__, lines 107-116: the environments are wrapped (the first one in
\* a VideoMonitor, each in an AutoResetWrapper) and the counters are zeroed.
InitEnvs ==
    /\ pc = "envs"
    /\ eng' = [eng EXCEPT !.envs = nenv]
    /\ num_steps' = 0
    /\ num_episodes' = 0
    /\ pc' = "graph"
    /\ UNCHANGED <<error, runs, kwargs, attrs, nenv, tfvars, fs, trainVars,
                   batchVars, histVars>>
    /\ UNCHANGED <<rolloutVars, optVars, reports, world, transitions,
                   otherVars>>

\* build_graph, lines 244-245: grads2 is assigned only under the condition.
Grads2(max_gradient_norm) ==
    IF max_gradient_norm > 0 THEN "clipped" ELSE "unbound"

\* Variant of Rescaling without the last elif: whatever is no known mode
\* leaves the value loss as it is.
MutRescalingNeverRaises(v) ==
    IF EqualsStr(v, "per_state") THEN "per_state"
    ELSE IF EqualsStr(v, "per_batch") THEN "per_batch"
    ELSE IF EqualsStr(v, "smooth") THEN "smooth"
    ELSE "off"

\* build_graph, lines 228-236: what the value loss is multiplied by, "off"
\* when by nothing, "raise" for the ValueError.
Rescaling(v) ==
    IF EqualsStr(v, "per_state") THEN "per_state"
    ELSE IF EqualsStr(v, "per_batch") THEN "per_batch"
    ELSE IF EqualsStr(v, "smooth") THEN "smooth"
    ELSE IF Truthy(v) THEN "raise"
    ELSE "off"

\* __init__, line 117: build_graph. The value loss is built before the
\* trainer; line 246 reads grads2, and reading a local name that was never
\* assigned raises UnboundLocalError.
InitGraph ==
    /\ pc = "graph"
    /\ LET r == Rescaling(GetAttr(Nm("v", "alue_grad_rescaling"),
                                  DefaultValueGradRescaling))
           g == Grads2(GetAttr(Nm("m", "ax_gradient_norm"), DefaultMaxGradientNorm))
       IN IF r = "raise"
          THEN /\ Raise("ValueError: Unrecognized value reweighting type",
                        "value_loss")
               /\ UNCHANGED eng
          ELSE IF g = "unbound"
          THEN /\ Raise("UnboundLocalError", "build_graph")
               /\ UNCHANGED eng
          ELSE /\ eng' = [eng EXCEPT !.graph = TRUE, !.rescaling = r,
                                     !.grads2 = g]
               /\ pc' = "session"
               /\ UNCHANGED error
    /\ UNCHANGED <<runs, kwargs, attrs, nenv, tfvars, counterVars, fs,
                   trainVars, batchVars, histVars>>
    /\ UNCHANGED <<rolloutVars, optVars, reports, world, transitions,
                   otherVars>>

\* __init__, lines 118-124: the session with its variables initialised, the
\* log writer, the saver, and the two deques with maxlen=1.
InitSession ==
    /\ pc = "session"
    /\ eng' = [eng EXCEPT !.session = TRUE, !.writer = TRUE, !.saver = TRUE]
    /\ tfvars' = ZeroVars
    /\ recent_states' = <<>>
    /\ training_stats' = <<>>
    /\ pc' = "restore"
    /\ UNCHANGED <<error, runs, kwargs, attrs, nenv, counterVars, fs, kw,
                   total_steps, last_save, batchVars, histVars>>
    /\ UNCHANGED <<rolloutVars, optVars, reports, world, transitions,
                   otherVars>>

\* -------------------------------------------------------------- checkpoints

\* The checkpoint files of the directory, by the number in their name.
FileNumbers == DOMAIN fs.ckpts

\* Where saver.save(session, save_path, global_step) writes: save_path is
\* os.path.join(logdir, 'model') (line 122), the step is appended.
SavePath(dir, step) == JoinPath(dir, <<ModelName(step)>>)

\* The first line of the pointer record the saver writes.
PointerLine(path) == <<FieldName, Quote>> \o path \o <<Quote>>

\* Variant of LoadCounters without line 131.
MutSaveSkipsEpisodeLoad(vars_, steps, episodes) ==
    [vars_ EXCEPT !.num_steps = steps]

\* save_checkpoint, lines 130-131: the counters are loaded into the
\* session's variables before the saver writes them.
LoadCounters(vars_, steps, episodes) ==
    [vars_ EXCEPT !.num_steps = steps, !.num_episodes = episodes]

\* save_checkpoint, line 132: the file model-<num_steps> holds the session's
\* variables and the pointer record names it.
WriteCheckpoint(dir, vars_, step) ==
    [fs EXCEPT
        !.has_pointer = TRUE,
        !.line = PointerLine(SavePath(dir, step)),
        !.ckpts = [n \in FileNumbers \cup {step} |->
                      IF n = step THEN [state |-> "valid", vars |-> vars_]
                      ELSE fs.ckpts[n]]]

\* Variant of RestoreTarget that loads the path as the pointer record has it.
MutRestoreKeepsPrefix(line, dir) == MatchGroup(line)

\* restore_checkpoint, lines 152-153: the base name of the quoted path,
\* under the current log directory.
RestoreTarget(line, dir) == JoinPath(dir, BaseName(MatchGroup(line)))

\* The files of the directory that lie at path.
FilesAt(path) == { n \in FileNumbers : SavePath(fs.dir, n) = path }

\* saver.restore(session, path): ValueError when path is no checkpoint, a
\* DataLossError for a corrupt file, an InvalidArgumentError for a file
\* that does not fit the graph; "none" when the variables were assigned.
RestoreRaises(path) ==
    IF FilesAt(path) = {} THEN "ValueError"
    ELSE LET f == fs.ckpts[CHOOSE n \in FilesAt(path) : TRUE]
         IN CASE f.state = "corrupt" -> "DataLossError"
              [] f.state = "incompatible" -> "InvalidArgumentError"
              [] OTHER -> "none"

\* restore_checkpoint, line 156: except ValueError.
Caught(exc) == exc = "ValueError"

\* __init__, line 125: restore_checkpoint(logdir), lines 134-161.
InitRestore ==
    /\ pc = "restore"
    /\ IF ~fs.has_pointer
       THEN /\ pc' = "ready"
            /\ UNCHANGED <<error, eng, tfvars, counterVars>>
       ELSE IF ~HasMatch(fs.line)
       THEN /\ pc' = "ready"
            /\ eng' = [eng EXCEPT !.read = TRUE]
            /\ UNCHANGED <<error, tfvars, counterVars>>
       ELSE LET path == RestoreTarget(fs.line, fs.dir)
                exc == RestoreRaises(path)
            IN /\ eng' = [eng EXCEPT !.read = TRUE]
               /\ IF exc = "none"
                  THEN /\ tfvars' = fs.ckpts[CHOOSE n \in FilesAt(path) : TRUE].vars
                       /\ num_steps' = tfvars'.num_steps
                       /\ num_episodes' = tfvars'.num_episodes
                       /\ pc' = "ready"
                       /\ UNCHANGED error
                  ELSE IF Caught(exc)
                  THEN /\ pc' = "ready"
                       /\ UNCHANGED <<error, tfvars, counterVars>>
                  ELSE /\ Raise(exc, "restore")
                       /\ UNCHANGED <<tfvars, counterVars>>
    /\ UNCHANGED <<runs, kwargs, attrs, nenv, fs, trainVars, batchVars,
                   histVars>>
    /\ UNCHANGED <<rolloutVars, optVars, reports, world, transitions,
                   otherVars>>

\* ------------------------------------------------------------------- train

\* Python's // on integers rounds towards minus infinity, as \div does.
FloorDiv(a, b) == a \div b

\* Variant of DequeExtend for a list: nothing falls out.
MutDequeUnbounded(dq, items, maxlen) == dq \o items

\* A deque(maxlen) after += items: the oldest entries fall out.
DequeExtend(dq, items, maxlen) ==
    LET all == dq \o items
    IN IF Len(all) <= maxlen THEN all
       ELSE SubSeq(all, Len(all) - maxlen + 1, Len(all))

\* train, lines 379-382: the call, up to the loop.
TrainCall ==
    /\ pc = "ready"
    /\ total_steps' \in 0..MaxTotal
    /\ last_save' = num_steps - 1
    /\ recent_states' = <<>>
    /\ training_stats' = <<>>
    /\ call' = [entry_steps |-> num_steps, cycles |-> 0, saves |-> 0,
                recorded |-> 0, appended |-> 0]
    /\ pc' = "loop"
    /\ UNCHANGED <<error, runs, ctorVars, tfvars, counterVars, fs, kw,
                   batchVars, cyc, last_ckpt>>
    /\ UNCHANGED <<rolloutVars, optVars, reports, world, transitions,
                   otherVars>>

\* Variant of KeepsTraining with <= for <.
MutLoopOffByOne(steps, total) == steps <= total

\* train, line 383: the loop condition.
KeepsTraining(steps, total) == steps < total

\* train, line 383: the loop condition is evaluated; a cycle starts with
\* train_batch calling gen_batch (lines 349, 278-287), or train returns.
LoopTest ==
    /\ pc = "loop"
    /\ IF KeepsTraining(num_steps, total_steps)
       THEN /\ pc' = "infer"
            /\ t' = 0
            /\ e' = 0
            /\ states' = <<>>
            /\ mask' = <<>>
            /\ actions' = <<>>
            /\ old_policy' = <<>>
            /\ rewards' = <<>>
            /\ values' = <<>>
            /\ policies' = <<>>
            /\ transitions' = <<>>
            /\ cyc' = [start_steps |-> num_steps,
                       start_episodes |-> num_episodes, saved |-> FALSE,
                       flushed |-> FALSE, flushed_at |-> 0]
       ELSE /\ pc' = "returned"
            /\ UNCHANGED <<batchVars, rolloutVars, transitions, cyc>>
    /\ UNCHANGED <<error, runs, ctorVars, tfvars, counterVars, fs, trainVars,
                   call, last_ckpt, optVars, reports, world, otherVars>>

\* The states of the environments at one timestep, each named by the number
\* of the transition that starts in it.
CurrentStates == [i \in 1..eng.envs |-> num_steps + i]

\* What the model gives for the current states of the environments.
CurrentPolicies ==
    [i \in 1..eng.envs |-> PolicyOf(world.pfun, tfvars.params, CurrentStates[i])]

CurrentValues ==
    [i \in 1..eng.envs |-> ValueOf(world.vfun, tfvars.params, CurrentStates[i])]

\* gen_batch, lines 291-295: the states of one timestep are recorded and the
\* model is asked for policies and values; the call may raise.
Infer ==
    /\ pc = "infer"
    /\ \E outcome \in {"ok", "raise"} :
          IF outcome = "ok"
          THEN /\ states' = states \o CurrentStates
               /\ policies' = CurrentPolicies
               /\ values' = Append(values, CurrentValues)
               /\ e' = 0
               /\ pc' = "step"
               /\ UNCHANGED error
          ELSE /\ Raise("Interrupt", "session.run")
               /\ UNCHANGED <<states, policies, values, e>>
    /\ UNCHANGED <<runs, ctorVars, tfvars, counterVars, fs, trainVars, t,
                   mask, actions, old_policy, rewards, histVars, optVars,
                   reports, world, otherVars, transitions>>

\* Variant of LogEpisode without the increment.
MutForgetsEpisode(episodes) == episodes

\* log_episode, line 369.
LogEpisode(episodes) == episodes + 1

\* Variant of CountStep that counts once per timestep, not per environment.
MutCountsPerTimestep(steps, env) == IF env = 0 THEN steps + 1 ELSE steps

\* gen_batch, line 297: self.num_steps += 1, for every environment.
CountStep(steps, env) == steps + 1

\* The state environment e (counted from 0) is in at timestep t (from 0) of
\* the cycle, before it is stepped.
StateOf(t_, e_) == cyc.start_steps + t_ * eng.envs + e_ + 1

\* np.random.choice(len(policy), p=policy): an action of probability > 0.
Support(policy) == { a \in 1..Len(policy) : policy[a].num > 0 }

\* Variant of Summary that carries the episode count before the increment.
MutSummaryBeforeCount(info, episodes, steps) ==
    [reward |-> info.episode_reward, length |-> info.episode_length,
     completed |-> episodes - 1, step |-> steps]

\* log_episode, lines 370-374: the summary and the step it is written at.
Summary(info, episodes, steps) ==
    [reward |-> info.episode_reward, length |-> info.episode_length,
     completed |-> episodes, step |-> steps]

\* gen_batch, lines 296-305: one environment is stepped. The counter is
\* incremented first; the step returns done or not, or raises.
EnvStep ==
    /\ pc = "step"
    /\ num_steps' = CountStep(num_steps, e)
    /\ \E outcome \in {"running", "done", "raise"} :
          IF outcome = "raise"
          THEN /\ Raise("Interrupt", "env.step")
               /\ UNCHANGED <<num_episodes, t, e, mask, actions, old_policy,
                              rewards, reports, transitions>>
          ELSE \E action \in Support(policies[e + 1]) :
               LET reward == RewardOf(world.rfun, StateOf(t, e)) IN
               /\ outcome = "done" => world.episodic /\ num_episodes < MaxEpisodes
               /\ rewards' = Append(rewards, reward)
               /\ mask' = Append(mask, outcome # "done")
               /\ actions' = Append(actions, action)
               /\ old_policy' = Append(old_policy, policies[e + 1][action])
               /\ num_episodes' = IF outcome = "done"
                                  THEN LogEpisode(num_episodes)
                                  ELSE num_episodes
               /\ reports' = IF outcome = "done"
                             THEN Append(reports,
                                         Summary(InfoOf(world.ifun, StateOf(t, e)),
                                                 num_episodes', num_steps'))
                             ELSE reports
               /\ transitions' =
                     Append(transitions,
                            [t |-> t, e |-> e, action |-> action,
                             done |-> outcome = "done"])
               /\ e' = IF e + 1 < eng.envs THEN e + 1 ELSE 0
               /\ t' = IF e + 1 < eng.envs THEN t ELSE t + 1
               /\ pc' = IF e + 1 < eng.envs THEN "step"
                        ELSE IF t + 1 < kw.steps_per_env THEN "infer"
                        ELSE "collected"
               /\ UNCHANGED error
    /\ UNCHANGED <<runs, ctorVars, tfvars, fs, trainVars, states, values,
                   policies, histVars, optVars, world, otherVars>>

\* A numpy array of one axis: its elements are computed when it is made.
NpArray(x) == SubSeq(x, 1, Len(x))

\* np.array(flat).reshape(-1, n): rows of n.
Reshape(flat, n) ==
    [i \in 1..(Len(flat) \div n) |-> SubSeq(flat, (i - 1) * n + 1, i * n)]

\* Variant of Ravel that reads the rows column by column.
MutRavelByColumn(rows) ==
    NpArray([k \in 1..(Len(rows) * Len(rows[1])) |->
               rows[((k - 1) % Len(rows)) + 1][((k - 1) \div Len(rows)) + 1]])

\* rows.ravel(): row after row.
Ravel(rows) ==
    NpArray([k \in 1..(Len(rows) * Len(rows[1])) |->
               rows[((k - 1) \div Len(rows[1])) + 1][((k - 1) % Len(rows[1])) + 1]])

\* gen_batch, lines 316-317: np.clip when reward_clip > 0.
ClipRewards(rows, clip) ==
    IF clip > 0
    THEN [i \in DOMAIN rows |-> NpArray([j \in DOMAIN rows[i] |->
            IF rows[i][j] < -clip THEN -clip
            ELSE IF rows[i][j] > clip THEN clip ELSE rows[i][j]])]
    ELSE rows

\* Variant of MaskNum that forgets the episode boundary.
MutMaskIgnoresDone(not_done) == 1

\* A mask entry as a number: 1 where the step did not report done.
MaskNum(not_done) == IF not_done THEN 1 ELSE 0

\* gen_batch, line 321: rewards + gamma * mask * values[1:] - values[:-1].
OneStep(r, m, v, gamma) ==
    [i \in DOMAIN r |-> NpArray([j \in DOMAIN r[i] |->
        r[i][j] + Mul(gamma, MaskNum(m[i][j]) * v[i + 1][j]) - v[i][j]])]

\* gen_batch, lines 323-325: rows[i] += q * mask[i] * rows[i+1], for i
\* from the given row down to the first.
RECURSIVE Backward(_, _, _, _)
Backward(rows, m, q, i) ==
    IF i < 1 THEN rows
    ELSE Backward([rows EXCEPT ![i] = NpArray([j \in DOMAIN rows[i] |->
                      rows[i][j] + Mul(q, MaskNum(m[i][j]) * rows[i + 1][j])])],
                  m, q, i - 1)

\* gen_batch, lines 322-324: the discounted rewards.
Returns(r, m, v, gamma) ==
    LET last == Len(r)
        boot == [r EXCEPT ![last] = NpArray([j \in DOMAIN r[last] |->
                    r[last][j] + Mul(gamma, MaskNum(m[last][j]) * v[last + 1][j])])]
    IN Backward(boot, m, gamma, last - 1)

\* Variant of AdvantageDiscount that discounts by gamma alone.
MutDiscountWithoutLmda(gamma, lmda) == gamma

\* gen_batch, line 325: self.gamma * self.lmda.
AdvantageDiscount(gamma, lmda) == FracMul(gamma, lmda)

\* gen_batch, lines 321-325: the advantages.
Advantages(r, m, v, gamma, lmda) ==
    Backward(OneStep(r, m, v, gamma), m, AdvantageDiscount(gamma, lmda),
             Len(r) - 1)

\* gen_batch, lines 313-338: what it returns, from its lists.
GenBatch(s_, a_, pi_, r_, m_, v_, n, gamma, lmda, clip) ==
    LET r == ClipRewards(Reshape(r_, n), clip)
        m == Reshape(m_, n)
    IN [s |-> s_, a |-> a_, pi |-> pi_,
        r |-> Ravel(Returns(r, m, v_, gamma)),
        A |-> Ravel(Advantages(r, m, v_, gamma, lmda)),
        v |-> Ravel(SubSeq(v_, 1, Len(v_) - 1))]

\* train_batch, line 349: what gen_batch returns for the rollout of the cycle,
\* once the values of the states the environments are left in are there.
batch ==
    GenBatch(states, actions, old_policy, rewards, mask, values, eng.envs,
             GetAttr(Nm("g", "amma"), DefaultGamma),
             GetAttr(Nm("l", "mda"), DefaultLmda),
             Mul(GetAttr(Nm("r", "eward_clip"), DefaultRewardClip), Unit))

\* gen_batch, lines 306-312: the states of the rollout go to recent_states
\* and the model gives the values of the states the environments are left
\* in; the arrays gen_batch returns are computed from the lists, as batch.
Collected ==
    /\ pc = "collected"
    /\ recent_states' = DequeExtend(recent_states, states, kw.report_every)
    /\ values' = Append(values, CurrentValues)
    /\ call' = [call EXCEPT !.recorded = @ + Len(states)]
    /\ pc' = "minibatch"
    /\ UNCHANGED <<error, runs, ctorVars, tfvars, counterVars, fs, kw,
                   total_steps, last_save, training_stats, batchVars, cyc,
                   last_ckpt, actions, old_policy, rewards, policies, optVars,
                   reports, world, otherVars, transitions>>

\* np.random.permutation(n): the orders a world may draw, as the list idx.
Permutation(name, n) ==
    CASE name = "identity" -> [i \in 1..n |-> i]
      [] name = "reverse" -> [i \in 1..n |-> n + 1 - i]
      [] name = "rotate" -> [i \in 1..n |-> (i % n) + 1]

\* Variant of ShuffleArrays that rearranges the states only.
MutShuffleStatesOnly(data, perm) ==
    [f \in DOMAIN data |->
        IF f = "s" THEN NpArray([i \in 1..Len(perm) |-> data[f][perm[i]]])
        ELSE data[f]]

\* shuffle_arrays, line 67: [[x[i] for i in perm] for x in data].
ShuffleArrays(data, perm) ==
    [f \in DOMAIN data |-> NpArray([i \in 1..Len(perm) |-> data[f][perm[i]]])]

\* range(0, stop, step) as the list of its elements.
PyRange(stop, step) ==
    [i \in 1..(IF stop > 0 THEN (stop + step - 1) \div step ELSE 0) |->
        (i - 1) * step]

\* Variant of WindowStarts with the stop one lower: a window that ends with
\* the batch is left out.
MutWindowsStopEarly(n, batch_size) == PyRange(n - batch_size, batch_size)

\* Variant of WindowStarts that also trains on the incomplete last window.
MutWindowsKeepTail(n, batch_size) == PyRange(n, batch_size)

\* train_batch, line 354: range(0, n + 1 - batch_size, batch_size).
WindowStarts(n, batch_size) == PyRange(n + 1 - batch_size, batch_size)

\* x[k:k2] of a list, k counted from 0: a slice ends where the list does.
Slice(x, k, k2) == SubSeq(x, k + 1, IF k2 <= Len(x) THEN k2 ELSE Len(x))

\* tf.one_hot(action, num_actions); actions are counted from 1 here.
OneHot(action, num_actions) ==
    [j \in 1..num_actions |-> IF j = action THEN 1 ELSE 0]

RECURSIVE FracSum(_)
FracSum(xs) ==
    IF xs = <<>> THEN Frac(0, 1) ELSE FracAdd(Head(xs), FracSum(Tail(xs)))

\* tf.reduce_mean(x, axis=-1) of one row.
ReduceMean(xs) == FracMul(FracSum(xs), Frac(1, Len(xs)))

\* build_graph, lines 183-184: a_policy of one transition.
APolicy(policy, action) ==
    ReduceMean([j \in DOMAIN policy |->
                  Frac(policy[j].num * OneHot(action, Len(policy))[j],
                       policy[j].den)])

\* build_graph, line 185: tf.sign(advantages) * (1 - a_policy / old_policy).
ProbDiff(advantage, a_policy, old) ==
    Frac(Sign(advantage) * (a_policy.den * old.num - a_policy.num * old.den),
         a_policy.den * old.num)

\* train_batch, lines 355-363: what one optimizer step is run on, the
\* window of the shuffled arrays that starts at step.k, and what the graph
\* computes from it with the parameters the steps before left.
Fed(data, step, batch_size) ==
    LET k2 == step.k + batch_size
        s_ == Slice(data.s, step.k, k2)
        a_ == Slice(data.a, step.k, k2)
        pi_ == Slice(data.pi, step.k, k2)
        A_ == Slice(data.A, step.k, k2)
        a_policy == [i \in DOMAIN s_ |->
                       APolicy(PolicyOf(world.pfun, step.params, s_[i]), a_[i])]
    IN [states |-> s_, actions |-> a_, old_policy |-> pi_,
        old_value |-> Slice(data.v, step.k, k2),
        rewards |-> Slice(data.r, step.k, k2),
        advantages |-> A_, a_policy |-> a_policy,
        prob_diff |-> [i \in DOMAIN s_ |-> ProbDiff(A_[i], a_policy[i], pi_[i])]]

\* train_batch, line 352: what shuffle_arrays returns for the batch.
shuffled == ShuffleArrays(batch, idx)

\* train_batch, lines 353-364: the optimizer steps the cycle has run, in
\* the order of the two loops: for each the epoch, the start k of its window
\* and the parameters the model had when it ran.
optimizer_steps ==
    LET starts == NpArray(WindowStarts(Len(states), kw.batch_size))
    IN [i \in 1..trained |->
          [epoch |-> ((i - 1) \div Len(starts)) + 1,
           k |-> starts[((i - 1) % Len(starts)) + 1],
           params |-> tfvars.params - trained + i - 1]]

\* train_batch, lines 352-366: the batch is shuffled, then every epoch
\* trains once on every window; each optimizer step changes the parameters
\* and appends one statistics record.
TrainMinibatches ==
    /\ pc = "minibatch"
    /\ \E order \in world.perms :
          idx' = NpArray(Permutation(order, Len(states)))
    /\ LET count == kw.epochs * Len(WindowStarts(Len(states), kw.batch_size))
       IN /\ trained' = count
          /\ training_stats' =
               DequeExtend(training_stats,
                           [i \in 1..count |-> [params |-> tfvars.params + i]],
                           kw.report_every)
          /\ tfvars' = [tfvars EXCEPT !.params = @ + count]
          /\ call' = [call EXCEPT !.appended = @ + count]
    /\ pc' = "check_save"
    /\ UNCHANGED <<error, runs, ctorVars, counterVars, fs, kw, total_steps,
                   last_save, recent_states, batchVars, cyc, last_ckpt>>
    /\ UNCHANGED <<rolloutVars, reports, world, otherVars, transitions>>

\* Variant of ShouldSave that sees one crossed multiple only.
MutSaveSingleBoundary(last, steps, every) ==
    FloorDiv(last, every) + 1 = FloorDiv(steps, every)

\* Variant of ShouldSave that saves when num_steps is a multiple.
MutSaveOnExactMultiple(last, steps, every) == steps % every = 0

\* Variant of ShouldSave that counts from last_save + 1.
MutSaveCountsFromStart(last, steps, every) ==
    FloorDiv(last + 1, every) < FloorDiv(steps, every)

\* train, line 385: a multiple of save_every lies in last_save+1..num_steps.
ShouldSave(last, steps, every) == FloorDiv(last, every) < FloorDiv(steps, every)

\* train, lines 385-387: the checkpoint cadence; save_checkpoint, 127-132.
CheckSave ==
    /\ pc = "check_save"
    /\ IF ShouldSave(last_save, num_steps, kw.save_every)
       THEN /\ tfvars' = LoadCounters(tfvars, num_steps, num_episodes)
            /\ fs' = WriteCheckpoint(fs.dir, tfvars', num_steps)
            /\ last_save' = num_steps
            /\ cyc' = [cyc EXCEPT !.saved = TRUE]
            /\ call' = [call EXCEPT !.saves = @ + 1]
            /\ last_ckpt' = [valid |-> TRUE, dir |-> fs.dir,
                             num_steps |-> num_steps,
                             num_episodes |-> num_episodes,
                             params |-> tfvars.params]
       ELSE UNCHANGED <<tfvars, fs, last_save, cyc, call, last_ckpt>>
    /\ pc' = "check_report"
    /\ UNCHANGED <<error, runs, ctorVars, counterVars, kw, total_steps,
                   recent_states, training_stats, batchVars>>
    /\ UNCHANGED <<rolloutVars, optVars, reports, world, transitions,
                   otherVars>>

\* Variant of ShouldFlush with the threshold 1.
MutFlushOnAnyState(length, report_every) == length >= 1

\* train, line 388.
ShouldFlush(length, report_every) == length >= report_every

\* train, lines 388-395: the telemetry cadence; the cycle ends, and what it
\* collected and trained on is no longer read by anything.
CheckReport ==
    /\ pc = "check_report"
    /\ IF ShouldFlush(Len(recent_states), kw.report_every)
       THEN /\ recent_states' = <<>>
            /\ training_stats' = <<>>
            /\ cyc' = [cyc EXCEPT !.flushed = TRUE, !.flushed_at = call.recorded]
            /\ call' = [call EXCEPT !.cycles = @ + 1, !.recorded = 0,
                                    !.appended = 0]
       ELSE /\ call' = [call EXCEPT !.cycles = @ + 1]
            /\ UNCHANGED <<recent_states, training_stats, cyc>>
    /\ pc' = "loop"
    /\ actions' = <<>>
    /\ old_policy' = <<>>
    /\ rewards' = <<>>
    /\ values' = <<>>
    /\ policies' = <<>>
    /\ idx' = <<>>
    /\ trained' = 0
    /\ reports' = <<>>
    /\ transitions' = <<>>
    /\ UNCHANGED <<error, runs, ctorVars, tfvars, counterVars, fs, kw,
                   total_steps, last_save, batchVars, last_ckpt, world, otherVars>>

\* ------------------------------------------------- between two processes

ProcessOver == pc \in {"returned", "raised"}

\* A new process constructs an engine over the same log directory.
NewProcess ==
    /\ ProcessOver
    /\ runs = 1
    /\ runs' = 2
    /\ \E options \in TrainKwargs : FreshProcess(options)
    /\ UNCHANGED <<nenv, fs, kw, last_ckpt, world, otherVars>>

\* A log directory that holds a checkpoint is moved: its files keep their
\* names and contents, the pointer record keeps the path written into it.
Relocate ==
    /\ ProcessOver
    /\ runs = 1
    /\ last_ckpt.valid
    /\ \E dir \in LogDirs \ {fs.dir} : fs' = [fs EXCEPT !.dir = dir]
    /\ UNCHANGED <<pc, error, runs, ctorVars, tfvars, counterVars, trainVars,
                   batchVars, histVars>>
    /\ UNCHANGED <<rolloutVars, optVars, reports, world, transitions,
                   otherVars>>

DamageKinds == {"no_pointer", "junk_line", "no_file", "corrupt", "incompatible"}

\* The checkpoint files the pointer record names.
Pointed == IF fs.has_pointer /\ HasMatch(fs.line)
           THEN FilesAt(RestoreTarget(fs.line, fs.dir)) ELSE {}

Damaged(kind) ==
    CASE kind = "no_pointer" -> [fs EXCEPT !.has_pointer = FALSE, !.line = <<>>]
      [] kind = "junk_line" -> [fs EXCEPT !.line = <<Junk, Quote, Quote>>]
      [] kind = "no_file" ->
            [fs EXCEPT !.ckpts = [n \in FileNumbers \ Pointed |-> fs.ckpts[n]]]
      [] kind = "corrupt" ->
            [fs EXCEPT !.ckpts = [n \in FileNumbers |->
                IF n \in Pointed THEN [fs.ckpts[n] EXCEPT !.state = "corrupt"]
                ELSE fs.ckpts[n]]]
      [] kind = "incompatible" ->
            [fs EXCEPT !.ckpts = [n \in FileNumbers |->
                IF n \in Pointed THEN [fs.ckpts[n] EXCEPT !.state = "incompatible"]
                ELSE fs.ckpts[n]]]

\* A log directory that holds a checkpoint and was not moved is damaged:
\* the pointer record is lost or garbled (a pair of quotes with nothing
\* between them), or the checkpoint it names is lost, corrupted or replaced
\* by one of another graph.
Damage ==
    /\ ProcessOver
    /\ runs = 1
    /\ last_ckpt.valid
    /\ fs.dir = last_ckpt.dir
    /\ \E kind \in DamageKinds : fs' = Damaged(kind)
    /\ last_ckpt' = [last_ckpt EXCEPT !.valid = FALSE]
    /\ UNCHANGED <<pc, error, runs, ctorVars, tfvars, counterVars, trainVars,
                   batchVars, cyc, call>>
    /\ UNCHANGED <<rolloutVars, optVars, reports, world, transitions,
                   otherVars>>

\* ----------------------------------------------------------- specifications

Construct == InitKwargs \/ InitEnvs \/ InitGraph \/ InitSession \/ InitRestore

Train ==
    \/ TrainCall \/ LoopTest \/ Infer \/ EnvStep \/ Collected
    \/ TrainMinibatches \/ CheckSave \/ CheckReport

Next == Construct \/ Train \/ NewProcess \/ Relocate \/ Damage

\* Engine processes that train, over one log directory.
Spec == Init /\ [][Next]_vars

\* Engine construction in an empty log directory, over every option list;
\* train() is not called, so its arguments are held at one value, and the
\* environments are not stepped, so there is one.
InitCfg ==
    /\ InitProcess(KwargSeqs(MaxKw, KwNames),
                   {a \in TrainArgs : a.report_every = 1 /\ a.save_every = 1
                                      /\ a.steps_per_env = 1})
    /\ nenv = 1
    /\ world = PlainWorld
    /\ NoOtherProgram

NextCfg == Construct

SpecCfg == InitCfg /\ [][NextCfg]_vars

\* The keyword arguments of train() in a process whose batches are looked
\* at: the cadences are held at one value, the minibatches vary.
BatchArgs ==
    [report_every : {1}, save_every : {1}, steps_per_env : 1..MaxT,
     batch_size : 1..MaxB, epochs : 1..DefaultEpochs]

\* A process whose batches are looked at: its options, its world and the
\* train() arguments of its script.
\*  - the discounts of the numeric scenario, rewards 0 and a model that
\*    values every state 1;
\*  - rewards -2, 0 and 2 and a model that gives every state another value,
\*    with other discounts, and with rewards cut at 1;
\*  - endless episodes and a model with two actions whose probabilities
\*    change with the state and the parameters;
\*  - endless episodes, every minibatch size and shuffles of three kinds;
\*  - endless episodes, rollouts of one timestep, every telemetry cadence
\*    with every minibatch size.
BatchScenes ==
    { [options |-> << [key |-> Nm("g", "amma"), val |-> Frac(9, 10)],
                      [key |-> Nm("l", "mda"), val |-> Frac(9, 10)] >>,
       world |-> [PlainWorld EXCEPT !.vfun = "one"],
       args |-> {a \in BatchArgs : a.batch_size = 1 /\ a.epochs = 1}],
      [options |-> << [key |-> Nm("g", "amma"), val |-> Frac(9, 10)],
                      [key |-> Nm("l", "mda"), val |-> Frac(1, 2)] >>,
       world |-> [PlainWorld EXCEPT !.vfun = "id", !.rfun = "cycle3",
                                    !.ifun = "by_state"],
       args |-> {a \in BatchArgs : a.batch_size = 1 /\ a.epochs = 1}],
      [options |-> << [key |-> Nm("g", "amma"), val |-> Frac(1, 2)],
                      [key |-> Nm("l", "mda"), val |-> Frac(9, 10)],
                      [key |-> Nm("r", "eward_clip"), val |-> Frac(1, 1)] >>,
       world |-> [PlainWorld EXCEPT !.vfun = "id", !.rfun = "cycle3"],
       args |-> {a \in BatchArgs : a.batch_size = 1 /\ a.epochs = 1}],
      [options |-> << [key |-> Nm("g", "amma"), val |-> Frac(9, 10)],
                      [key |-> Nm("l", "mda"), val |-> Frac(9, 10)] >>,
       world |-> [PlainWorld EXCEPT !.vfun = "id", !.rfun = "cycle3",
                                    !.pfun = "skew2", !.episodic = FALSE],
       args |-> {a \in BatchArgs : a.batch_size = 1 /\ a.epochs = DefaultEpochs}],
      [options |-> << [key |-> Nm("g", "amma"), val |-> Frac(9, 10)],
                      [key |-> Nm("l", "mda"), val |-> Frac(9, 10)] >>,
       world |-> [PlainWorld EXCEPT !.vfun = "id", !.rfun = "cycle3",
                                    !.pfun = "certain2", !.episodic = FALSE,
                                    !.perms = {"identity", "reverse", "rotate"}],
       args |-> BatchArgs],
      [options |-> << [key |-> Nm("g", "amma"), val |-> Frac(9, 10)],
                      [key |-> Nm("l", "mda"), val |-> Frac(9, 10)] >>,
       world |-> [PlainWorld EXCEPT !.episodic = FALSE],
       args |-> {[a EXCEPT !.batch_size = b, !.epochs = 1] :
                   a \in {x \in TrainArgs : x.save_every = 1 /\ x.steps_per_env = 1},
                   b \in 1..MaxB}] }

\* One engine process that trains, in each of the scenes.
InitBatch ==
    \E scene \in BatchScenes :
       /\ InitProcess({scene.options}, scene.args)
       /\ world = scene.world
       /\ NoOtherProgram

NextBatch == Construct \/ Train

SpecBatch == InitBatch /\ [][NextBatch]_vars

\* ------------------------------------------------------ discounted_rewards

\* No engine runs: the engine's variables stay as a process finds them.
EngineIdle ==
    /\ InitProcess({<<>>}, {a \in TrainArgs : a.report_every = 1 /\ a.save_every = 1
                                              /\ a.steps_per_env = 1})
    /\ nenv = 1
    /\ world = PlainWorld

engineVars ==
    <<pc, error, runs, ctorVars, tfvars, counterVars, fs, trainVars, batchVars,
      rolloutVars, optVars, reports, world, transitions, histVars>>

\* The rewards and the final value discounted_rewards is given are whole
\* multiples of 1 / Unit scaled so that, with gamma in tenths, the result
\* of MaxLen discounts has no digit cut off.
DiscountUnit == 10 ^ MaxLen

\* rewards[::-1]
Reversed(s) == [i \in 1..Len(s) |-> s[Len(s) + 1 - i]]

\* lines 44-46: the list d once the loop has run over the first k of the
\* reversed rewards.
RECURSIVE DiscountLoop(_, _, _, _)
DiscountLoop(rev, k, gamma, final) ==
    IF k = 0 THEN <<final>>
    ELSE LET d == DiscountLoop(rev, k - 1, gamma, final)
         IN Append(d, rev[k] + Mul(gamma, d[Len(d)]))

\* d[::-1], the whole list backwards
MutSliceKeepsFinal(d) == [i \in 1..Len(d) |-> d[Len(d) + 1 - i]]

\* d[:0:-1]: from the last element down to, and without, the first
SliceDownToFirst(d) == [i \in 1..(Len(d) - 1) |-> d[Len(d) + 1 - i]]

\* lines 43-47
discounted_rewards(rs, gamma, final) ==
    NpArray(SliceDownToFirst(DiscountLoop(Reversed(rs), Len(rs), gamma, final)))

RECURSIVE SeqsUpTo(_, _)
SeqsUpTo(n, S) ==
    IF n = 0 THEN {<<>>}
    ELSE LET shorter == SeqsUpTo(n - 1, S)
         IN shorter \cup {Append(s, x) : s \in {q \in shorter : Len(q) = n - 1}, x \in S}

\* The arguments of the calls looked at: up to MaxLen rewards out of -1, 0
\* and 2, a discount of nothing, a half, nine tenths or one, a final value
\* of 0 or 1.
DiscountArgs ==
    [rewards : SeqsUpTo(MaxLen, {-DiscountUnit, 0, 2 * DiscountUnit}),
     gamma : {Frac(0, 1), Frac(1, 2), Frac(9, 10), Frac(1, 1)},
     final : {0, DiscountUnit}]

InitDiscount ==
    /\ EngineIdle
    /\ \E args \in DiscountArgs : dr = [pc |-> "called", args |-> args]
    /\ c4 = NotRunning
    /\ gl = NotRunning

\* One call of discounted_rewards returns.
DiscountedRewards ==
    /\ dr.pc = "called"
    /\ dr' = [pc |-> "returned", args |-> dr.args,
              result |-> discounted_rewards(dr.args.rewards, dr.args.gamma,
                                            dr.args.final)]
    /\ UNCHANGED <<engineVars, c4, gl>>

NextDiscount == DiscountedRewards

\* Calls of discounted_rewards, over every argument list.
SpecDiscount == InitDiscount /\ [][NextDiscount]_vars

\* ---------------------------------------------------------------- Connect4

\* numpy.zeros((6, 7)).astype(int): the rows from the bottom one up.
EmptyBoard == NpArray([i \in 1..Rows |-> NpArray([j \in 1..Cols |-> 0])])

\* self.board[i][j], rows and columns counted from 0
At(board, i, j) == board[i + 1][j + 1]

\* range(n) as a list
Range(n) == NpArray([k \in 1..n |-> k - 1])

\* legal_actions, lines 221-226
legal_actions(board) == SelectSeq(Range(7), LAMBDA i : At(board, 5, i) = 0)

\* is_finished, lines 228-276, for self.player = player
is_finished(board, player) ==
    \/ \E i \in 0..3, j \in 0..5 :
          /\ At(board, j, i) = player
          /\ At(board, j, i + 1) = player
          /\ At(board, j, i + 2) = player
          /\ At(board, j, i + 3) = player
    \/ \E i \in 0..6, j \in 0..2 :
          /\ At(board, j, i) = player
          /\ At(board, j + 1, i) = player
          /\ At(board, j + 2, i) = player
          /\ At(board, j + 3, i) = player
    \/ \E i \in 0..3, j \in 0..2 :
          /\ At(board, j, i) = player
          /\ At(board, j + 1, i + 1) = player
          /\ At(board, j + 2, i + 2) = player
          /\ At(board, j + 3, i + 3) = player
    \/ \E i \in 0..3, j \in 3..5 :
          /\ At(board, j, i) = player
          /\ At(board, j - 1, i + 1) = player
          /\ At(board, j - 2, i + 2) = player
          /\ At(board, j - 3, i + 3) = player
    \/ Len(legal_actions(board)) = 0

\* Variant of Place that takes the last empty cell of the column.
MutPlaceOnTop(board, player, action) ==
    LET empty == {i \in 0..5 : At(board, i, action) = 0}
    IN IF empty = {} THEN board
       ELSE LET i == CHOOSE x \in empty : \A y \in empty : x >= y
            IN [board EXCEPT ![i + 1][action + 1] = player]

\* step, lines 202-205: the first empty cell of the column, going up from
\* row 0, takes the player; a column without one is left as it is.
Place(board, player, action) ==
    LET empty == {i \in 0..5 : At(board, i, action) = 0}
    IN IF empty = {} THEN board
       ELSE LET i == CHOOSE x \in empty : \A y \in empty : x <= y
            IN [board EXCEPT ![i + 1][action + 1] = player]

\* Variant of Reward that pays every finished game.
MutRewardWhenDone(done, legal) == IF done THEN 1 ELSE 0

\* step, line 209
Reward(done, legal) == IF done /\ 0 < Len(legal) THEN 1 ELSE 0

\* Variant of Turned that keeps the player after a step that placed nothing.
MutTurnsWhenPlaced(player, before, after) == IF before = after THEN player ELSE -player

\* step, line 211: self.player *= -1
Turned(player, before, after) == -player

\* to_play, line 194
to_play(player) == IF player = 1 THEN 0 ELSE 1

\* The games the caller plays, as the actions of its steps: a game that
\* fills the board without a line of four, a game whose last piece fills
\* the board and completes a line, and games won by a row (first player), a
\* column (second player), a rising diagonal (first player) and a falling
\* diagonal (second player).
Scripts ==
    << << 2, 5, 5, 2, 5, 2, 2, 5, 2, 5, 5, 2, 3, 1, 1, 3, 3, 1, 1, 3, 1, 3, 1, 3,
          6, 4, 6, 4, 6, 4, 4, 6, 6, 4, 4, 6, 0, 0, 0, 0, 0, 0 >>,
       << 1, 4, 1, 4, 1, 4, 4, 1, 4, 1, 4, 1, 3, 6, 3, 6, 6, 3, 3, 6, 6, 3, 6, 3,
          5, 2, 5, 2, 5, 2, 2, 5, 5, 2, 5, 2, 0, 0, 0, 0, 0, 0 >>,
       << 3, 6, 1, 4, 0, 1, 2 >>,
       << 5, 3, 2, 3, 6, 3, 4, 3 >>,
       << 6, 3, 0, 1, 1, 2, 3, 2, 2, 3, 3 >>,
       << 3, 3, 2, 1, 1, 4, 2, 2, 1, 1 >> >>

NoStep ==
    [action |-> -1, player |-> 0, legal |-> TRUE, reward |-> 0, game_reward |-> 0,
     done |-> FALSE]

\* __init__ and reset, lines 189-191 and 196-199: an empty board, player 1
\* to move; nothing stepped yet.
NewGame(script) ==
    [pc |-> "play", script |-> script, board |-> EmptyBoard, player |-> 1,
     steps |-> 0, illegal |-> 0, free |-> 0, last |-> NoStep]

InitConnect4 ==
    /\ EngineIdle
    /\ dr = NotRunning
    /\ \E script \in DOMAIN Scripts : c4 = NewGame(script)
    /\ gl = NotRunning

\* The step follows the script of the game.
Follows(action) ==
    /\ c4.free = 0
    /\ c4.steps < Len(Scripts[c4.script])
    /\ action = Scripts[c4.script][c4.steps + 1]

\* Game.step, lines 102-113, and Connect4.step, lines 201-213: the action is
\* any column, with a full column, and the game may be over already.
GameStep ==
    /\ c4.pc = "play"
    /\ \E action \in 0..6 :
          /\ Follows(action) \/ c4.free < MaxFree
          /\ LET board == Place(c4.board, c4.player, action)
                 done == is_finished(board, c4.player)
                 reward == Reward(done, legal_actions(board))
                 legal == \E k \in 1..Len(legal_actions(c4.board)) :
                             legal_actions(c4.board)[k] = action
             IN c4' = [c4 EXCEPT
                         !.board = board,
                         !.player = Turned(c4.player, c4.board, board),
                         !.steps = @ + 1,
                         !.illegal = IF legal THEN @ ELSE @ + 1,
                         !.free = IF Follows(action) THEN 0 ELSE @ + 1,
                         !.last = [action |-> action, player |-> c4.player,
                                   legal |-> legal,
                                   reward |-> reward,
                                   game_reward |-> reward * RewardScale,
                                   done |-> done]]
    /\ UNCHANGED <<engineVars, dr, gl>>

\* Game.reset, lines 137-144, and Connect4.reset, lines 196-199.
GameReset ==
    /\ c4.pc = "play"
    /\ c4.steps > 0
    /\ c4' = NewGame(c4.script)
    /\ UNCHANGED <<engineVars, dr, gl>>

NextConnect4 == GameStep \/ GameReset

\* Games of Connect4 played through the Game wrapper.
SpecConnect4 == InitConnect4 /\ [][NextConnect4]_vars

\* ---------------------------------------------------------------- GameLoop

\* KEYS, imported from keyboard_input: the keys that are no characters.
KEYS ==
    [LEFT_ARROW |-> "LEFT_ARROW", RIGHT_ARROW |-> "RIGHT_ARROW",
     UP_ARROW |-> "UP_ARROW", DOWN_ARROW |-> "DOWN_ARROW",
     INTERRUPT |-> "INTERRUPT", DELETE |-> "DELETE"]

\* lines 49-78; the carriage return is written "return"
COMMAND_KEYS ==
    (KEYS.LEFT_ARROW :> "TURN LEFT") @@ (KEYS.RIGHT_ARROW :> "TURN RIGHT")
    @@ (KEYS.UP_ARROW :> "MOVE FORWARD") @@ (KEYS.DOWN_ARROW :> "MOVE BACKWARD")
    @@ ("a" :> "TURN LEFT") @@ ("d" :> "TURN RIGHT") @@ ("w" :> "MOVE FORWARD")
    @@ ("s" :> "MOVE BACKWARD") @@ ("i" :> "MOVE UP") @@ ("k" :> "MOVE DOWN")
    @@ ("j" :> "MOVE LEFT") @@ ("l" :> "MOVE RIGHT") @@ ("I" :> "TOGGLE UP")
    @@ ("K" :> "TOGGLE DOWN") @@ ("J" :> "TOGGLE LEFT") @@ ("L" :> "TOGGLE RIGHT")
    @@ ("return" :> "NULL") @@ ("z" :> "NULL") @@ ("c" :> "TOGGLE")
    @@ ("f" :> "IFEMPTY") @@ ("r" :> "REPEAT") @@ ("p" :> "DEFINE")
    @@ ("o" :> "CALL") @@ ("/" :> "LOOP") @@ ("'" :> "CONTINUE")
    @@ (";" :> "BREAK") @@ ("[" :> "BLOCK") @@ ("R" :> "RESTART")

\* lines 85-116
EDIT_KEYS ==
    (KEYS.LEFT_ARROW :> "MOVE LEFT") @@ (KEYS.RIGHT_ARROW :> "MOVE RIGHT")
    @@ (KEYS.UP_ARROW :> "MOVE UP") @@ (KEYS.DOWN_ARROW :> "MOVE DOWN")
    @@ ("x" :> "PUT EMPTY") @@ ("a" :> "PUT AGENT") @@ ("z" :> "PUT LIFE")
    @@ ("Z" :> "PUT HARD LIFE") @@ ("w" :> "PUT WALL") @@ ("r" :> "PUT CRATE")
    @@ ("e" :> "PUT EXIT") @@ ("i" :> "PUT ICECUBE") @@ ("t" :> "PUT PLANT")
    @@ ("T" :> "PUT TREE") @@ ("d" :> "PUT WEED") @@ ("p" :> "PUT PREDATOR")
    @@ ("f" :> "PUT FOUNTAIN") @@ ("n" :> "PUT SPAWNER") @@ ("1" :> "TOGGLE ALIVE")
    @@ ("2" :> "TOGGLE PRESERVING") @@ ("3" :> "TOGGLE INHIBITING")
    @@ ("4" :> "TOGGLE SPAWNING") @@ ("5" :> "CHANGE COLOR") @@ ("g" :> "CHANGE GOAL")
    @@ ("%" :> "CHANGE COLOR FULL CYCLE") @@ ("G" :> "CHANGE GOAL FULL CYCLE")
    @@ ("s" :> "SAVE") @@ ("S" :> "SAVE AS") @@ ("R" :> "REVERT")
    @@ ("Q" :> "END LEVEL")

\* lines 117-119; the backtick and the backslash are written as words
TOGGLE_EDIT == "backtick"
TOGGLE_RECORD == "*"
START_SHELL == "backslash"

\* The keys getch() returns in the plays looked at: the keys with a branch
\* of their own, keys bound in both tables, in one of them, and in neither.
Keys ==
    { KEYS.INTERRUPT, KEYS.DELETE, TOGGLE_RECORD, TOGGLE_EDIT, START_SHELL,
      KEYS.UP_ARROW, "a", "R", "c", "x", "Q", "?" }

\* Variant of Branch that takes a command key whatever the editing flag is.
MutCommandWhileEditing(editing, key) ==
    IF key = KEYS.INTERRUPT THEN "interrupt"
    ELSE IF key = KEYS.DELETE THEN "delete"
    ELSE IF key = TOGGLE_RECORD THEN "toggle_record"
    ELSE IF key = TOGGLE_EDIT THEN "toggle_edit"
    ELSE IF key = START_SHELL THEN "shell"
    ELSE IF editing /\ key \in DOMAIN EDIT_KEYS THEN "edit"
    ELSE IF key \in DOMAIN COMMAND_KEYS THEN "command"
    ELSE "none"

\* play, lines 198-217: the branch of the if / elif chain a key takes.
Branch(editing, key) ==
    IF key = KEYS.INTERRUPT THEN "interrupt"
    ELSE IF key = KEYS.DELETE THEN "delete"
    ELSE IF key = TOGGLE_RECORD THEN "toggle_record"
    ELSE IF key = TOGGLE_EDIT THEN "toggle_edit"
    ELSE IF key = START_SHELL THEN "shell"
    ELSE IF editing /\ key \in DOMAIN EDIT_KEYS THEN "edit"
    ELSE IF ~editing /\ key \in DOMAIN COMMAND_KEYS THEN "command"
    ELSE "none"

\* A level as load_levels yields it: not over, not being edited.
NewLevel == [is_editing |-> FALSE, game_over |-> 0, edits |-> 0]

\* StatefulProgram(game): no command in its queue.
NewProgram == [command_queue |-> <<>>]

\* program.add_command(command): the command joins the queue, or the queue
\* is run and emptied; the points and steps the game made are returned, and
\* the level may be over, or is to be restarted after RESTART.
AddCommand(program, game, command) ==
    { [program |-> [program EXCEPT !.command_queue = queue], game |-> game,
       points |-> 0, steps |-> 0] :
         queue \in {Append(program.command_queue, command)} }
    \cup
    { [program |-> [program EXCEPT !.command_queue = <<>>],
       game |-> [game EXCEPT !.game_over = over],
       points |-> points, steps |-> 1] :
         points \in 0..1,
         over \in IF command = "RESTART" THEN {-2} ELSE {0, 1} }

\* program.pop_command(): the last command of the queue is dropped.
PopCommand(program) ==
    [program EXCEPT !.command_queue =
        IF @ = <<>> THEN @ ELSE SubSeq(@, 1, Len(@) - 1)]

\* game.revert(): the level is as it was loaded.
Revert(game) == [game EXCEPT !.game_over = 0, !.edits = 0]

\* game.execute_edit(command): the board is edited, END LEVEL ends the
\* level, REVERT reverts it.
ExecuteEdit(game, command) ==
    IF command = "END LEVEL" THEN [game EXCEPT !.game_over = -1]
    ELSE IF command = "REVERT" THEN Revert(game)
    ELSE [game EXCEPT !.edits = @ + 1]

NoKey == [key |-> "", branch |-> "none", points |-> 0, steps |-> 0]

\* start_games, lines 241-244, the first level loaded: the totals are 0, the
\* flags have the values of the class (lines 138-139).
InitLoop ==
    /\ EngineIdle
    /\ dr = NotRunning
    /\ c4 = NotRunning
    /\ gl = [pc |-> "play", editing |-> FALSE, recording |-> FALSE,
             total_points |-> 0, total_steps |-> 0, game |-> NewLevel,
             program |-> NewProgram, keys |-> 0, added |-> 0, edited |-> 0,
             last |-> NoKey]

\* play, lines 167-172
Play ==
    /\ gl.pc = "play"
    /\ gl' = [gl EXCEPT !.pc = "loop", !.program = NewProgram,
                        !.game.is_editing = gl.editing]
    /\ UNCHANGED <<engineVars, dr, c4>>

\* play, lines 174-220: one pass of the loop, from the test of game_over
\* through getch() and the branch of the key to the restart of the level.
ReadKey ==
    /\ gl.pc = "loop"
    /\ gl.game.game_over = 0
    /\ gl.keys < MaxKeys
    /\ \E key \in Keys :
         LET branch == Branch(gl.editing, key)
             read == [gl EXCEPT !.keys = @ + 1,
                                !.last = [key |-> key, branch |-> branch,
                                          points |-> 0, steps |-> 0]]
             restarted(g) == IF g.game_over = -2 THEN Revert(g) ELSE g
         IN CASE branch = "interrupt" -> gl' = [read EXCEPT !.pc = "aborted"]
              [] branch = "delete" ->
                    gl' = [read EXCEPT !.program = PopCommand(@)]
              [] branch = "toggle_record" ->
                    gl' = [read EXCEPT !.recording = ~@]
              [] branch = "toggle_edit" ->
                    gl' = [read EXCEPT !.editing = ~gl.editing,
                                       !.game.is_editing = ~gl.editing]
              [] branch = "shell" -> gl' = read
              [] branch = "edit" ->
                    gl' = [read EXCEPT
                             !.game = restarted(ExecuteEdit(@, EDIT_KEYS[key])),
                             !.edited = @ + 1]
              [] branch = "command" ->
                    \E done \in AddCommand(gl.program, gl.game, COMMAND_KEYS[key]) :
                       gl' = [read EXCEPT
                                !.program = done.program,
                                !.game = restarted(done.game),
                                !.total_points = @ + done.points,
                                !.total_steps = @ + done.steps,
                                !.added = @ + 1,
                                !.last.points = done.points,
                                !.last.steps = done.steps]
              [] OTHER -> gl' = read
    /\ UNCHANGED <<engineVars, dr, c4>>

\* play, lines 174 and 222-238: the level is over; unless it was ended from
\* the editor the scores are shown and any key is waited for.
LevelOver ==
    /\ gl.pc = "loop"
    /\ gl.game.game_over # 0
    /\ gl' = [gl EXCEPT !.pc = IF gl.game.game_over # -1 THEN "any_key"
                                ELSE "returned"]
    /\ UNCHANGED <<engineVars, dr, c4>>

\* play, line 239: getch()
AnyKey ==
    /\ gl.pc = "any_key"
    /\ gl' = [gl EXCEPT !.pc = "returned"]
    /\ UNCHANGED <<engineVars, dr, c4>>

\* start_games, lines 246-247: the next level is loaded and played.
NextLevel ==
    /\ gl.pc = "returned"
    /\ gl.keys < MaxKeys
    /\ gl' = [gl EXCEPT !.pc = "play", !.game = NewLevel]
    /\ UNCHANGED <<engineVars, dr, c4>>

NextLoop == Play \/ ReadKey \/ LevelOver \/ AnyKey \/ NextLevel

\* A GameLoop that plays levels, one key at a time.
SpecLoop == InitLoop /\ [][NextLoop]_vars

\* ------------------------------------------------------------------ claims

\* The transitions one training cycle collects: steps_per_env * len(envs).
BatchLen == kw.steps_per_env * eng.envs

\* How many entries of a mask are False: steps that reported done.
Dones(m) == Cardinality({ i \in 1..Len(m) : ~m[i] })

InCycle ==
    pc \in {"infer", "step", "collected", "minibatch", "check_save", "check_report"}

InTrain == InCycle \/ pc \in {"loop", "returned"}

RaisedAt(site) == pc = "raised" /\ error.at = site

\* C1: whenever a training cycle takes the step counter from a to b with
\* floor(a / save_every) < floor(b / save_every), the cadence check at the
\* end of that cycle saves a checkpoint: the file model-<b> holds step count
\* b and the pointer record names it.
C1_SaveOnEveryCrossing ==
    (/\ pc = "check_report"
     /\ FloorDiv(cyc.start_steps, kw.save_every) < FloorDiv(num_steps, kw.save_every))
    => /\ cyc.saved
       /\ last_save = num_steps
       /\ fs.has_pointer
       /\ fs.line = PointerLine(SavePath(fs.dir, num_steps))
       /\ num_steps \in FileNumbers
       /\ fs.ckpts[num_steps].state = "valid"
       /\ fs.ckpts[num_steps].vars.num_steps = num_steps

\* A cycle that crossed two multiples of save_every at once, and was saved.
C1_Witness ==
    /\ pc = "check_report"
    /\ FloorDiv(num_steps, kw.save_every)
         - FloorDiv(cyc.start_steps, kw.save_every) >= 2
    /\ cyc.saved

\* C2 as stated: every flush comes after exactly report_every recorded
\* transitions, for every steps_per_env, number of environments and
\* report_every.
C2_FlushAfterExactlyR ==
    (pc = "loop" /\ call.cycles > 0 /\ cyc.flushed)
    => cyc.flushed_at = kw.report_every

\* C2, amended: a flush happens at the end of the first cycle that brings
\* the transitions recorded since train started or since the previous flush
\* to report_every or more (so after fewer than report_every + one batch of
\* them), never before; right after a flush both buffers are empty.
C2_FlushAtFirstCycleEndPastR ==
    (pc = "loop" /\ call.cycles > 0)
    => /\ cyc.flushed =>
            /\ cyc.flushed_at >= kw.report_every
            /\ cyc.flushed_at - BatchLen < kw.report_every
            /\ recent_states = <<>>
            /\ training_stats = <<>>
            /\ call.recorded = 0
       /\ ~cyc.flushed => call.recorded < kw.report_every

\* A flush after more than report_every recorded transitions.
C2_Witness ==
    /\ pc = "loop"
    /\ call.cycles > 1
    /\ cyc.flushed
    /\ cyc.flushed_at > kw.report_every

\* C3: an engine constructed over the log directory of a process that saved
\* a checkpoint starts with the step count, the episode count and the
\* persisted variables the saving engine held at its latest save.
C3_RestoreRoundTrip ==
    (pc = "ready" /\ runs = 2 /\ last_ckpt.valid /\ fs.dir = last_ckpt.dir)
    => /\ num_steps = last_ckpt.num_steps
       /\ num_episodes = last_ckpt.num_episodes
       /\ tfvars.params = last_ckpt.params

\* A restored engine with counters that training produced.
C3_Witness ==
    /\ pc = "ready"
    /\ runs = 2
    /\ last_ckpt.valid
    /\ fs.dir = last_ckpt.dir
    /\ num_steps > 1
    /\ num_episodes > 0

\* The pointer record names a checkpoint that can be loaded.
Restorable ==
    /\ fs.has_pointer
    /\ HasMatch(fs.line)
    /\ RestoreRaises(RestoreTarget(fs.line, fs.dir)) = "none"

\* C4: when the checkpoint cannot be restored, whatever the reason, no
\* error leaves the constructor and the engine starts with both counters 0.
C4_RestoreFailureIsSilent ==
    /\ ~RaisedAt("restore")
    /\ (pc = "ready" /\ ~Restorable) => (num_steps = 0 /\ num_episodes = 0)

\* C5: construction succeeds whatever max_gradient_norm is; the gradients
\* the optimizer applies are clipped exactly when it is positive.
C5_NonPositiveNormDisablesClipping ==
    /\ ~RaisedAt("build_graph")
    /\ eng.graph =>
         eng.grads2 =
            IF GetAttr(Nm("m", "ax_gradient_norm"), DefaultMaxGradientNorm) > 0
            THEN "clipped" ELSE "unclipped"

\* C6 as stated: when an interrupt raised from an environment step or a
\* model call stops the loop, the counters have the values of the last
\* completed cycle boundary.
C6_CountersOnlyAtCycleBoundaries ==
    (RaisedAt("env.step") \/ RaisedAt("session.run"))
    => /\ num_steps = cyc.start_steps
       /\ num_episodes = cyc.start_episodes

\* C6, amended: inside a cycle the counters move one environment step at a
\* time: step_count is the value at the cycle's start plus the environment
\* steps started in the cycle, episode_count that value plus the steps that
\* reported done; an interrupt leaves them there.
C6_CountersFollowEnvSteps ==
    /\ InCycle =>
         /\ num_steps = cyc.start_steps + Len(mask)
         /\ num_episodes = cyc.start_episodes + Dones(mask)
    /\ RaisedAt("session.run") =>
         /\ num_steps = cyc.start_steps + Len(mask)
         /\ num_episodes = cyc.start_episodes + Dones(mask)
    /\ RaisedAt("env.step") =>
         /\ num_steps = cyc.start_steps + Len(mask) + 1
         /\ num_episodes = cyc.start_episodes + Dones(mask)

\* An interrupt in the middle of a cycle, after a step that reported done.
C6_Witness ==
    /\ RaisedAt("env.step")
    /\ Len(mask) >= 1
    /\ Len(mask) + 1 < BatchLen
    /\ num_episodes > cyc.start_episodes

\* C7: gen_batch(T) over N environments adds T*N to step_count and the
\* number of steps that reported done to episode_count; the only steps of
\* an engine that change a counter are an environment step and the restore
\* of a checkpoint.
C7_CountersPerBatch ==
    [][ /\ pc' = "collected" =>
             /\ Len(mask') = kw'.steps_per_env * eng'.envs
             /\ num_steps' = cyc'.start_steps + kw'.steps_per_env * eng'.envs
             /\ num_episodes' = cyc'.start_episodes + Dones(mask')
        /\ (num_steps' # num_steps \/ num_episodes' # num_episodes) =>
             \/ pc = "step"
             \/ pc = "restore"
             \/ (ProcessOver /\ pc' = "kwargs") ]_vars

\* A rollout over two environments and two timesteps with a done step.
C7_Witness ==
    /\ pc = "collected"
    /\ eng.envs = 2
    /\ kw.steps_per_env = 2
    /\ Dones(mask) >= 1

\* C8 as stated: whenever train returns, step_count has passed total_steps
\* by less than one batch.
C8_ReturnWithinOneBatch ==
    pc = "returned"
    => /\ num_steps >= total_steps
       /\ num_steps - total_steps < BatchLen

\* C8, amended: train returns from the loop condition only, with
\* step_count >= total_steps; step_count has passed total_steps by less
\* than one batch when a cycle ran; when step_count >= total_steps held on
\* entry no cycle ran, nothing was saved and step_count is as on entry. The
\* loop ends: the cycles of one call never number more than the steps that
\* were missing on entry.
C8_TrainReturns ==
    [][ /\ pc' = "returned" =>
             /\ pc \in {"loop", "returned"}
             /\ num_steps' >= total_steps'
             /\ call'.cycles > 0 =>
                    num_steps' - total_steps' < kw'.steps_per_env * eng'.envs
             /\ call'.entry_steps >= total_steps' =>
                    /\ call'.cycles = 0
                    /\ call'.saves = 0
                    /\ num_steps' = call'.entry_steps
        /\ (pc = "loop" /\ pc' = "infer") => num_steps < total_steps
        /\ InTrain' =>
             /\ (call'.cycles > 0 \/ InCycle') => call'.entry_steps < total_steps'
             /\ call'.cycles <= IF total_steps' > call'.entry_steps
                                THEN total_steps' - call'.entry_steps ELSE 0 ]_vars

\* train returns at once in an engine restored beyond total_steps by more
\* than a batch.
C8_Witness ==
    /\ pc = "returned"
    /\ call.cycles = 0
    /\ num_steps - total_steps >= BatchLen

\* The configuration surface the specification enumerates (section 6).
ConfigSurface ==
    { Nm("g", "amma"), Nm("l", "mda"), Nm("l", "earning_rate"),
      Nm("e", "ntropy_reg"), Nm("e", "ntropy_clip"), Nm("v", "f_coef"),
      Nm("m", "ax_gradient_norm"), Nm("e", "ps_clip"), Nm("r", "eward_clip"),
      Nm("v", "alue_grad_rescaling"), Nm("p", "olicy_rectifier"),
      Nm("s", "cale_prob_clipping") }

\* The option names the constructor takes.
AcceptedNames == ConfigSurface \cup { Nm("v", "ideo_freq") }

\* C9: an option name the constructor does not take raises the
\* configuration error before any other side effect, whatever its position
\* among the options: no environment wrapped, no graph, no session, no log
\* writer, no saver, no checkpoint read, the log directory untouched.
C9_ConfigErrorBeforeSideEffects ==
    [][ /\ (pc = "kwargs" /\ kwargs # <<>>
            /\ Head(kwargs).key \notin AcceptedNames) =>
             /\ pc' = "raised"
             /\ error' = [type |-> "ValueError: Unrecognized parameter",
                          at |-> "kwargs"]
        /\ (pc' = "raised" /\ error'.at = "kwargs") =>
             /\ eng' = NoEngine
             /\ tfvars' = ZeroVars
             /\ fs' = fs ]_vars

\* The error is raised for the second option, after the first was set.
C9_Witness ==
    /\ RaisedAt("kwargs")
    /\ Len(kwargs) = 1
    /\ attrs # <<>>

\* C10 as stated: the names the constructor takes are exactly the
\* enumerated configuration surface.
C10_AcceptsExactlySurface ==
    /\ DOMAIN attrs \subseteq ConfigSurface
    /\ RaisedAt("kwargs") => Head(kwargs).key \notin ConfigSurface

\* C10, amended: the names the constructor takes are exactly the
\* enumerated configuration surface and video_freq.
C10_AcceptsSurfaceAndVideoFreq ==
    /\ DOMAIN attrs \subseteq AcceptedNames
    /\ RaisedAt("kwargs") => Head(kwargs).key \notin AcceptedNames

\* video_freq was taken, and a name of the surface with it.
C10_Witness ==
    /\ Nm("v", "ideo_freq") \in DOMAIN attrs
    /\ Cardinality(DOMAIN attrs) = 2
    /\ pc = "ready"

\* C15: restore loads the checkpoint of the base name the pointer record
\* holds from the current log directory, whatever directory the record
\* names: an engine constructed over a log directory that was moved after
\* the latest save starts with the counters and variables of that save, as
\* it does in the original location.
C15_RestoreAfterRelocation ==
    (pc = "ready" /\ runs = 2 /\ last_ckpt.valid)
    => /\ BaseName(MatchGroup(fs.line)) = <<ModelName(last_ckpt.num_steps)>>
       /\ eng.read
       /\ num_steps = last_ckpt.num_steps
       /\ num_episodes = last_ckpt.num_episodes
       /\ tfvars = fs.ckpts[last_ckpt.num_steps].vars

\* An engine restored in a directory other than the one the pointer record
\* names, with counters that training produced.
C15_Witness ==
    /\ pc = "ready"
    /\ runs = 2
    /\ last_ckpt.valid
    /\ fs.dir # last_ckpt.dir
    /\ MatchGroup(fs.line) = SavePath(last_ckpt.dir, num_steps)
    /\ num_steps > 1
    /\ num_episodes > 0

\* The smaller of two numbers.
Min(a, b) == IF a <= b THEN a ELSE b

\* C18: during train(report_every=R) neither buffer is ever longer than R;
\* at the end of a rollout recent_states holds the latest min(R, recorded)
\* states recorded since the last flush, in the order they were recorded,
\* and after the optimizer steps training_stats holds the latest
\* min(R, appended) statistics records, in the order they were appended.
C18_BuffersHoldMostRecent ==
    /\ (InTrain \/ RaisedAt("env.step") \/ RaisedAt("session.run")) =>
         /\ Len(recent_states) <= kw.report_every
         /\ Len(training_stats) <= kw.report_every
    /\ pc \in {"minibatch", "check_save", "check_report"} =>
         /\ Len(recent_states) = Min(kw.report_every, call.recorded)
         /\ \A j \in 1..Len(recent_states) :
               recent_states[j] = num_steps - Len(recent_states) + j
    /\ pc \in {"check_save", "check_report"} =>
         /\ Len(training_stats) = Min(kw.report_every, call.appended)
         /\ \A j \in 1..Len(training_stats) :
               training_stats[j].params = tfvars.params - Len(training_stats) + j

\* Older states were evicted: more were recorded since the last flush than
\* the buffer holds, over more than one cycle.
C18_Witness ==
    /\ pc = "check_report"
    /\ call.cycles >= 1
    /\ call.recorded > kw.report_every
    /\ Len(recent_states) = kw.report_every
    /\ call.appended > kw.report_every

\* The value_grad_rescaling the graph is built with.
ConfiguredRescaling ==
    GetAttr(Nm("v", "alue_grad_rescaling"), DefaultValueGradRescaling)

\* The value loss was built: the graph was, or the trainer failed after it.
ValueLossBuilt == eng.graph \/ RaisedAt("build_graph")

\* The four modes the specification enumerates, none being False.
RecognisedModes ==
    { PyBool(FALSE), PyStr("smooth"), PyStr("per_batch"), PyStr("per_state") }

\* C20 as stated: graph build accepts each of the four modes and raises
\* the configuration error for every other configured value.
C20_FourModesElseError ==
    /\ RaisedAt("value_loss") => ConfiguredRescaling \notin RecognisedModes
    /\ ValueLossBuilt => ConfiguredRescaling \in RecognisedModes

\* C20, amended: graph build accepts smooth, per_batch and per_state and,
\* as no rescaling, every value that is false in Python (False, None, 0,
\* the empty string); it raises the configuration error for every other
\* value, the string 'none' among them.
C20_ModesOrFalseElseError ==
    /\ RaisedAt("value_loss") =>
         /\ ConfiguredRescaling \notin RecognisedModes
         /\ Truthy(ConfiguredRescaling)
    /\ ValueLossBuilt =>
         \/ ConfiguredRescaling \in RecognisedModes
         \/ ~Truthy(ConfiguredRescaling)
    /\ eng.graph =>
         eng.rescaling = IF Truthy(ConfiguredRescaling)
                         THEN ConfiguredRescaling.s ELSE "off"

\* A graph built without rescaling for a value that is none of the four.
C20_Witness ==
    /\ eng.graph
    /\ eng.rescaling = "off"
    /\ ConfiguredRescaling \in {PyNone, PyInt(0), PyStr("")}

\* Transition (t, e) of the rollout, t and e counted from 0: what the
\* environment and the model gave for its state, and the action and the
\* done flag its environment step had.
Transition(t_, e_) ==
    LET x == CHOOSE y \in { transitions[i] : i \in DOMAIN transitions } :
                y.t = t_ /\ y.e = e_
    IN [state |-> StateOf(t_, e_),
        policy |-> PolicyOf(world.pfun, tfvars.params, StateOf(t_, e_)),
        value |-> ValueOf(world.vfun, tfvars.params, StateOf(t_, e_)),
        reward |-> RewardOf(world.rfun, StateOf(t_, e_)),
        action |-> x.action, done |-> x.done]

\* The hyperparameters the engine was constructed with.
Gamma == GetAttr(Nm("g", "amma"), DefaultGamma)
Lmda == GetAttr(Nm("l", "mda"), DefaultLmda)
RewardClip == Mul(GetAttr(Nm("r", "eward_clip"), DefaultRewardClip), Unit)

\* The timesteps and environments of a rollout, counted from 0, and the
\* index of transition (t, e) in the arrays gen_batch returns.
Timesteps == 0..(kw.steps_per_env - 1)
Envs == 0..(eng.envs - 1)
Ix(t_, e_) == t_ * eng.envs + e_ + 1

\* The reward of transition (t, e) as the batch uses it, cut to
\* [-reward_clip, reward_clip] when reward_clip > 0.
RewardAt(t_, e_) ==
    LET r == Transition(t_, e_).reward
    IN IF RewardClip > 0 /\ r > RewardClip THEN RewardClip
       ELSE IF RewardClip > 0 /\ r < -RewardClip THEN -RewardClip
       ELSE r

\* mask = 1 - done of transition (t, e).
MaskAt(t_, e_) == IF Transition(t_, e_).done THEN 0 ELSE 1

\* v[t] of environment e: the value of the state before step t, and for
\* t = T the bootstrap value of the state the rollout left it in.
ValueAt(t_, e_) ==
    IF t_ < kw.steps_per_env THEN Transition(t_, e_).value
    ELSE ValueOf(world.vfun, tfvars.params, num_steps + e_ + 1)

OneStepAt(t_, e_) ==
    RewardAt(t_, e_) + Mul(Gamma, MaskAt(t_, e_) * ValueAt(t_ + 1, e_))
    - ValueAt(t_, e_)

\* C11: in the batch of a rollout of T timesteps over N environments the
\* advantages satisfy A[T-1] = onestep[T-1] and A[t] = onestep[t] +
\* gamma*lambda*mask[t]*A[t+1], the returns R[T-1] = r[T-1] +
\* gamma*mask[T-1]*v[T] and R[t] = r[t] + gamma*mask[t]*R[t+1], with
\* onestep[t] = r[t] + gamma*mask[t]*v[t+1] - v[t], for every environment.
C11_AdvantageAndReturnRecursion ==
    pc = "minibatch" =>
      \A t_ \in Timesteps, e_ \in Envs :
         IF t_ = kw.steps_per_env - 1
         THEN /\ batch.A[Ix(t_, e_)] = OneStepAt(t_, e_)
              /\ batch.r[Ix(t_, e_)] =
                    RewardAt(t_, e_)
                    + Mul(Gamma, MaskAt(t_, e_) * ValueAt(t_ + 1, e_))
         ELSE /\ batch.A[Ix(t_, e_)] =
                    OneStepAt(t_, e_)
                    + Mul(FracMul(Gamma, Lmda),
                          MaskAt(t_, e_) * batch.A[Ix(t_ + 1, e_)])
              /\ batch.r[Ix(t_, e_)] =
                    RewardAt(t_, e_)
                    + Mul(Gamma, MaskAt(t_, e_) * batch.r[Ix(t_ + 1, e_)])

\* The numeric scenario: gamma = lambda = 0.9, two timesteps of one
\* environment, values 1, 1, 1, rewards 0, 0, no done: the advantages are
\* -0.181 and -0.1, the returns 0.81 and 0.9.
C11_Witness ==
    /\ pc = "minibatch"
    /\ Gamma = Frac(9, 10)
    /\ Lmda = Frac(9, 10)
    /\ eng.envs = 1
    /\ kw.steps_per_env = 2
    /\ rewards = <<0, 0>>
    /\ mask = <<TRUE, TRUE>>
    /\ values = << <<Unit>>, <<Unit>>, <<Unit>> >>
    /\ batch.A = <<Mul(Frac(-181, 1000), Unit), Mul(Frac(-1, 10), Unit)>>
    /\ batch.r = <<Mul(Frac(81, 100), Unit), Mul(Frac(9, 10), Unit)>>

\* What a rollout that differs from the one collected may have afterwards:
\* other rewards and values, steps done or not.
AltRewards == {0, 2 * Unit}
AltValues == {0, Unit}

\* The rollouts that agree with the collected one on environment e_ up to
\* row d (rows counted from 1) and on every other environment: the rows of
\* rewards, mask and values (the bootstrap row among them), with what
\* follows row d of environment e_ replaced.
Alternatives(d, e_) ==
    LET r == ClipRewards(Reshape(rewards, eng.envs), RewardClip)
        m == Reshape(mask, eng.envs)
        last == kw.steps_per_env
    IN { [r |-> [i \in 1..last |-> [j \in 1..eng.envs |->
                    IF j = e_ /\ i > d THEN alt.r[i] ELSE r[i][j]]],
          m |-> [i \in 1..last |-> [j \in 1..eng.envs |->
                    IF j = e_ /\ i > d THEN alt.m[i] ELSE m[i][j]]],
          v |-> [i \in 1..(last + 1) |-> [j \in 1..eng.envs |->
                    IF j = e_ /\ i > d THEN alt.v[i] ELSE values[i][j]]]] :
         alt \in [r : [(d + 1)..last -> AltRewards],
                  m : [(d + 1)..last -> BOOLEAN],
                  v : [(d + 1)..(last + 1) -> AltValues]] }

\* C12: where environment e reports done at timestep t the return is the
\* reward and the advantage the reward minus the value; and the returns and
\* advantages of environment e up to t are those of every rollout that
\* agrees with this one on the rewards, dones and values of e up to t,
\* whatever its later rewards, dones and values, bootstrap value included.
C12_NothingCrossesTerminal ==
    pc = "minibatch" =>
      \A t_ \in Timesteps, e_ \in Envs :
         Transition(t_, e_).done =>
            /\ batch.r[Ix(t_, e_)] = RewardAt(t_, e_)
            /\ batch.A[Ix(t_, e_)] = RewardAt(t_, e_) - ValueAt(t_, e_)
            /\ \A alt \in Alternatives(t_ + 1, e_ + 1) :
                  \A u \in 0..t_ :
                     /\ Ravel(Returns(alt.r, alt.m, alt.v, Gamma))[Ix(u, e_)]
                          = batch.r[Ix(u, e_)]
                     /\ Ravel(Advantages(alt.r, alt.m, alt.v, Gamma, Lmda))[Ix(u, e_)]
                          = batch.A[Ix(u, e_)]

\* A done step of one of two environments that is not the last of the
\* rollout, followed by a value, a return and an advantage that are not 0.
C12_Witness ==
    /\ pc = "minibatch"
    /\ eng.envs >= 2
    /\ \E t_ \in Timesteps, e_ \in Envs :
          /\ t_ + 1 \in Timesteps
          /\ Transition(t_, e_).done
          /\ ValueAt(t_ + 1, e_) # 0
          /\ batch.r[Ix(t_ + 1, e_)] # 0
          /\ batch.A[Ix(t_ + 1, e_)] # 0

\* The names of the six arrays gen_batch returns.
BatchFields == {"s", "a", "pi", "r", "A", "v"}

\* C13: the six arrays gen_batch returns for T timesteps over N
\* environments all have length T*N, and at index t*N + e the states, actions,
\* behaviour probabilities and values hold the state environment e was in
\* before step t, the action sampled for it, the probability the policy gave
\* that action and the value estimated for that state.
C13_ArraysAligned ==
    pc = "minibatch" =>
      LET b == batch IN
      /\ \A f \in BatchFields : Len(b[f]) = kw.steps_per_env * eng.envs
      /\ \A t_ \in Timesteps, e_ \in Envs :
            LET x == Transition(t_, e_) IN
            /\ b.s[Ix(t_, e_)] = x.state
            /\ b.a[Ix(t_, e_)] = x.action
            /\ b.pi[Ix(t_, e_)] = x.policy[x.action]
            /\ b.v[Ix(t_, e_)] = x.value

\* A batch of two timesteps over two environments in which both actions
\* were taken, with two different probabilities, and no two values agree.
C13_Witness ==
    /\ pc = "minibatch"
    /\ kw.steps_per_env = 2
    /\ eng.envs = 2
    /\ batch.a = <<1, 2, 2, 1>>
    /\ Cardinality({batch.pi[i] : i \in 1..4}) = 2
    /\ Cardinality({batch.v[i] : i \in 1..4}) = 4

\* C14: in every optimizer step the new_prob of a transition is the
\* probability the model, with the parameters it then has, gives the action
\* taken in that transition; in the first step of a cycle, where the model
\* is the one the actions were sampled from, new_prob / old_prob = 1 and
\* diff = sign(advantage) * (1 - new_prob / old_prob) = 0.
C14_NewProbIsModelProbability ==
    pc = "check_save" =>
      \A i \in DOMAIN optimizer_steps :
         LET step == optimizer_steps[i]
             fed == Fed(shuffled, step, kw.batch_size)
         IN \A j \in DOMAIN fed.states :
               /\ FracEq(fed.a_policy[j],
                         PolicyOf(world.pfun, step.params,
                                  fed.states[j])[fed.actions[j]])
               /\ i = 1 =>
                     /\ FracEq(fed.a_policy[j], fed.old_policy[j])
                     /\ fed.prob_diff[j].num = 0

\* Where entry i of the shuffled states sh was in the states of the batch b;
\* no two states of a batch are equal.
Origin(b, sh, i) == CHOOSE j \in DOMAIN b.s : b.s[j] = sh.s[i]

\* C17: shuffle_arrays returns, for the six arrays of a batch of n
\* transitions, six sequences of length n that are the arrays rearranged by
\* one permutation p, output[i] = input[p[i]] in every array, so that what
\* shared an index before shares one after; the call leaves the lists the
\* arrays of the batch are made of as they were.
C17_OnePermutationForAllArrays ==
    /\ [](pc = "check_save" =>
            LET b == batch
                sh == shuffled
            IN /\ { Origin(b, sh, i) : i \in DOMAIN b.s } = DOMAIN b.s
               /\ \A f \in BatchFields :
                     /\ Len(sh[f]) = Len(b[f])
                     /\ \A i \in DOMAIN b.s :
                           sh[f][i] = b[f][Origin(b, sh, i)])
    /\ [][pc = "minibatch" /\ pc' = "check_save" =>
            UNCHANGED <<states, actions, old_policy, rewards, mask, values>>]_vars

\* Four transitions were shuffled by a permutation that leaves none of them
\* in place, and the arrays of actions, returns and values are not constant.
C17_Witness ==
    /\ pc = "check_save"
    /\ Len(batch.s) = 4
    /\ \A i \in 1..4 : Origin(batch, shuffled, i) # i
    /\ \A f \in {"a", "r", "v"} :
          Cardinality({ batch[f][i] : i \in 1..4 }) > 1

\* The positions, counted from 0, of the window that starts at k.
Window(k) == k..(k + kw.batch_size - 1)

\* C16: one train_batch over T*N transitions with minibatches of B and E
\* epochs shuffles the batch once and runs E * floor(T*N / B) optimizer
\* steps; the k-th step of every epoch is fed positions [k*B, (k+1)*B) of
\* the one shuffled batch, the windows of an epoch are pairwise disjoint,
\* the last T*N mod B positions are in no window, every step appends one
\* statistics record, and with B > T*N there is no step while the step
\* count has still advanced by T*N.
C16_OptimizerStepsPerBatch ==
    /\ [](pc = "check_save" =>
            LET n == kw.steps_per_env * eng.envs
                per_epoch == n \div kw.batch_size
                sh == shuffled
                st == optimizer_steps
            IN /\ Len(sh.s) = n
               /\ trained = kw.epochs * per_epoch
               /\ kw.batch_size > n => trained = 0
               /\ num_steps = cyc.start_steps + n
               /\ \A i \in DOMAIN st :
                     LET fed == Fed(sh, st[i], kw.batch_size)
                         k == (i - 1) % per_epoch
                     IN /\ st[i].epoch = ((i - 1) \div per_epoch) + 1
                        /\ st[i].k = k * kw.batch_size
                        /\ Window(st[i].k) \subseteq 0..(n - 1)
                        /\ \A f \in {"states", "actions", "old_policy",
                                      "old_value", "rewards", "advantages"} :
                              Len(fed[f]) = kw.batch_size
                        /\ \A j \in 1..kw.batch_size :
                              /\ fed.states[j] = sh.s[st[i].k + j]
                              /\ fed.actions[j] = sh.a[st[i].k + j]
                              /\ fed.old_policy[j] = sh.pi[st[i].k + j]
                              /\ fed.old_value[j] = sh.v[st[i].k + j]
                              /\ fed.rewards[j] = sh.r[st[i].k + j]
                              /\ fed.advantages[j] = sh.A[st[i].k + j]
               /\ \A i, j \in DOMAIN st :
                     i # j /\ st[i].epoch = st[j].epoch =>
                        Window(st[i].k) \cap Window(st[j].k) = {}
               /\ \A i \in DOMAIN st :
                     Window(st[i].k) \cap ((n - (n % kw.batch_size))..(n - 1)) = {})
    /\ [][pc = "minibatch" /\ pc' = "check_save" =>
            /\ call'.appended = call.appended + trained'
            /\ tfvars'.params = tfvars.params + trained'
            /\ num_steps' = num_steps]_vars

\* Three epochs over four shuffled transitions with minibatches of three:
\* three optimizer steps, and the last position is never trained on.
C16_Witness ==
    /\ pc = "check_save"
    /\ Len(states) = 4
    /\ kw.batch_size = 3
    /\ kw.epochs = 3
    /\ trained = 3
    /\ idx # <<1, 2, 3, 4>>

\* The environment steps of the cycle that reported done, as their
\* positions in the order the steps were taken.
DoneSteps == { i \in DOMAIN transitions : transitions[i].done }

\* The position of the j-th of them.
NthDone(j) ==
    CHOOSE i \in DoneSteps : Cardinality({ x \in DoneSteps : x <= i }) = j

\* C19: a process that started cold writes one episode report in every
\* environment step that reports done, within that step; the j-th report of
\* a cycle carries the reward and the length of the info of the j-th done
\* step, an index one above that of the report before it (the k-th report
\* of the process carries k) and the step count with that step counted; the
\* step counts of successive reports never decrease.
C19_OneReportPerEpisode ==
    /\ [](/\ Len(reports) = Cardinality(DoneSteps)
          /\ InCycle => num_episodes = cyc.start_episodes + Len(reports)
          /\ InCycle /\ call.cycles = 0 => cyc.start_episodes = 0
          /\ \A j \in DOMAIN reports :
                LET x == transitions[NthDone(j)]
                    info == InfoOf(world.ifun, StateOf(x.t, x.e))
                IN /\ reports[j].reward = info.episode_reward
                   /\ reports[j].length = info.episode_length
                   /\ reports[j].completed = cyc.start_episodes + j
                   /\ reports[j].step = cyc.start_steps + NthDone(j)
                   /\ j > 1 => reports[j].step >= reports[j - 1].step)
    /\ [][/\ Len(mask') = Len(mask) + 1 /\ ~mask'[Len(mask')] =>
               /\ reports' = Append(reports, reports'[Len(reports')])
               /\ reports'[Len(reports')].completed = num_episodes + 1
               /\ reports'[Len(reports')].step = num_steps + 1
               /\ reports'[Len(reports')].step = num_steps'
          /\ reports' # reports /\ reports' # <<>> =>
               /\ Len(mask') = Len(mask) + 1 /\ ~mask'[Len(mask')]
               /\ reports'[Len(reports')].step > cyc.start_steps
          /\ num_episodes' # num_episodes =>
               /\ reports' # reports
               /\ num_episodes' = reports'[Len(reports')].completed
          /\ cyc'.start_steps >= cyc.start_steps]_vars

\* The second report of a process, written in the second step of a cycle
\* after the first cycle, with an info that is not the plain one.
C19_Witness ==
    /\ world.ifun = "by_state"
    /\ call.cycles >= 1
    /\ Len(mask) = 2
    /\ Len(reports) = 1
    /\ NthDone(1) = 2
    /\ reports[1].completed = 2
    /\ reports[1].reward # 0
    /\ reports[1].step = cyc.start_steps + 2

\* C21: discounted_rewards(rewards, gamma, final) returns as many numbers as
\* it is given rewards, none for no rewards; the last is the last reward
\* plus gamma * final, every other one is its reward plus gamma times the
\* next result; n equal rewards r with final 0 give r * (1 - gamma^n) /
\* (1 - gamma) first.
C21_DiscountedRecursion ==
    dr.pc = "returned" =>
        LET r == dr.args.rewards
            g == dr.args.gamma
            out == dr.result
            n == Len(r)
        IN /\ Len(out) = n
           /\ n = 0 => out = <<>>
           /\ n >= 1 => out[n] * g.den = r[n] * g.den + g.num * dr.args.final
           /\ \A i \in 1..(n - 1) : out[i] * g.den = r[i] * g.den + g.num * out[i + 1]
           /\ (n >= 1 /\ dr.args.final = 0 /\ g.num # g.den
                      /\ \A i \in 1..n : r[i] = r[1])
                 => out[1] * (g.den - g.num) * g.den ^ (n - 1)
                      = r[1] * (g.den ^ n - g.num ^ n)

\* Three rewards of 2 discounted by nine tenths, final 0: 5.42 comes first.
C21_Witness ==
    /\ dr.pc = "returned"
    /\ dr.args.gamma = Frac(9, 10)
    /\ dr.args.final = 0
    /\ dr.args.rewards = <<2 * DiscountUnit, 2 * DiscountUnit, 2 * DiscountUnit>>
    /\ dr.result[1] * 100 = 542 * DiscountUnit

\* The multiples of save_every in from+1..to.
Crossed(from, to) == {m \in (from + 1)..to : m % kw.save_every = 0}

\* C22: after the checkpoint-cadence check of a cycle last_save and
\* num_steps have the same quotient by save_every; fewer than save_every
\* steps lie past last_save and past the checkpoint saved last; a train()
\* call has saved at most once per cycle.
C22_SaveKeepsUp ==
    /\ pc = "check_report" =>
          /\ FloorDiv(last_save, kw.save_every) = FloorDiv(num_steps, kw.save_every)
          /\ num_steps - last_save < kw.save_every
          /\ num_steps - last_ckpt.num_steps < kw.save_every
    /\ InTrain => call.saves <= call.cycles + (IF pc = "check_report" THEN 1 ELSE 0)

\* A cycle that crossed two multiples of save_every and saved once.
C22_Witness ==
    /\ pc = "check_report"
    /\ Cardinality(Crossed(cyc.start_steps, num_steps)) >= 2
    /\ cyc.saved
    /\ call.saves = 1

C23_ResumedBetweenMultiples ==
    /\ pc = "check_report"
    /\ call.entry_steps % kw.save_every # 0
    /\ cyc.saved

\* The telemetry cadence of the cycle finds the buffers due for a flush.
FlushDue == pc = "check_report" /\ ShouldFlush(Len(recent_states), kw.report_every)

\* C24: a cycle ends with a flush exactly when recent_states holds
\* report_every entries, whatever training_stats holds; at a flush
\* training_stats holds a record when epochs >= 1 and batch_size is at most
\* steps_per_env * len(envs), and none when batch_size is larger.
C24_FlushLooksAtStatesOnly ==
    /\ [](FlushDue /\ kw.epochs >= 1 /\ kw.batch_size <= BatchLen
             => Len(training_stats) >= 1)
    /\ [](FlushDue /\ kw.batch_size > BatchLen => training_stats = <<>>)
    /\ [][pc = "check_report"
            => (cyc'.flushed <=> Len(recent_states) >= kw.report_every)]_vars

\* A flush at the end of a call's second cycle, with minibatches of the size
\* of the batch.
C24_Witness ==
    /\ FlushDue
    /\ call.cycles = 1
    /\ kw.batch_size = BatchLen
    /\ Len(training_stats) >= 1

\* A flush with no training record, after two cycles without a minibatch.
C24_FlushWithoutStats ==
    /\ FlushDue
    /\ call.cycles = 1
    /\ kw.batch_size > BatchLen
    /\ training_stats = <<>>

\* The rows, from the bottom, and the columns of the Connect4 board.
BoardRows == 1..Rows
BoardCols == 1..Cols

Playing == c4.pc = "play"

\* The step of the game from this state to the next.
Stepped == Playing /\ c4'.steps = c4.steps + 1

Pieces(board) == Cardinality({rc \in BoardRows \X BoardCols : board[rc[1]][rc[2]] # 0})

\* The cells in which two boards differ.
Changed(b1, b2) == {rc \in BoardRows \X BoardCols : b1[rc[1]][rc[2]] # b2[rc[1]][rc[2]]}

\* The lowest empty row of a column that has one.
LowestEmpty(board, col) ==
    CHOOSE r \in BoardRows : /\ board[r][col] = 0
                             /\ \A q \in 1..(r - 1) : board[q][col] # 0

\* C25: legal_actions() is the columns 0..6 whose top cell is empty; a
\* legal step puts one piece of the player to move into the lowest empty
\* cell of its column and changes no other cell; after legal steps the
\* board holds as many pieces as steps were taken since reset; no piece is
\* above an empty cell; a step into a full column leaves the board as it is.
C25_PiecesFallAndStay ==
    /\ [](Playing =>
            /\ \A a \in 0..6 :
                  (\E k \in 1..Len(legal_actions(c4.board)) :
                      legal_actions(c4.board)[k] = a) <=> c4.board[Rows][a + 1] = 0
            /\ \A k \in 1..Len(legal_actions(c4.board)) :
                  legal_actions(c4.board)[k] \in 0..6
            /\ c4.illegal = 0 => Pieces(c4.board) = c4.steps
            /\ \A r \in 1..(Rows - 1), c \in BoardCols :
                  c4.board[r][c] = 0 => c4.board[r + 1][c] = 0)
    /\ [][Stepped =>
            IF c4.board[Rows][c4'.last.action + 1] = 0
            THEN /\ Changed(c4.board, c4'.board)
                      = {<<LowestEmpty(c4.board, c4'.last.action + 1),
                           c4'.last.action + 1>>}
                 /\ c4'.board[LowestEmpty(c4.board, c4'.last.action + 1)]
                             [c4'.last.action + 1] = c4.player
                 /\ c4.player \in {1, -1}
            ELSE c4'.board = c4.board]_vars

\* The board filled by forty-two legal steps.
C25_Witness ==
    /\ Playing
    /\ c4.illegal = 0
    /\ c4.steps = Rows * Cols
    /\ Pieces(c4.board) = Rows * Cols
    /\ Len(legal_actions(c4.board)) = 0

\* A step into a full column while other columns have room.
C25_FullColumnStep ==
    /\ Playing
    /\ ~c4.last.legal
    /\ Len(legal_actions(c4.board)) > 0
    /\ Pieces(c4.board) = c4.steps - 1

\* C26: to_play() is 0 or 1, 0 after reset, and changes with every step, a
\* step into a full column and a step that ends the game among them: after
\* k steps it is k mod 2.
C26_ToPlayAlternates ==
    /\ [](Playing => /\ to_play(c4.player) \in {0, 1}
                      /\ to_play(c4.player) = c4.steps % 2)
    /\ [][Stepped => to_play(c4'.player) = 1 - to_play(c4.player)]_vars
    /\ [][Playing /\ c4'.steps = 0 => to_play(c4'.player) = 0]_vars

\* A step into a full column that also finds the game over.
C26_Witness ==
    /\ Playing
    /\ c4.steps >= 1
    /\ ~c4.last.legal
    /\ c4.last.done
    /\ to_play(c4.player) = to_play(c4.last.player) + 1

\* Four cells in a row, a column or a diagonal of the board hold player.
HasLine(board, player) ==
    \E r \in BoardRows, c \in BoardCols, d \in {<<0, 1>>, <<1, 0>>, <<1, 1>>, <<1, -1>>} :
       \A k \in 0..3 : /\ r + k * d[1] \in BoardRows
                        /\ c + k * d[2] \in BoardCols
                        /\ board[r + k * d[1]][c + k * d[2]] = player

\* A column has an empty top cell.
HasRoom(board) == \E c \in BoardCols : board[Rows][c] = 0

\* C27: a step returns done exactly when the player who moved has four in a
\* line or no column has an empty top cell; its reward is 1, 10 through
\* Game.step, exactly when it is done and a column has an empty top cell
\* after the move, and 0 otherwise.
C27_DoneAndReward ==
    Playing /\ c4.steps >= 1 =>
        /\ c4.last.done <=> HasLine(c4.board, c4.last.player) \/ ~HasRoom(c4.board)
        /\ c4.last.reward = (IF c4.last.done /\ HasRoom(c4.board) THEN 1 ELSE 0)
        /\ c4.last.game_reward = (IF c4.last.done /\ HasRoom(c4.board) THEN 10 ELSE 0)

\* The last cell of the board completes a line: done, and no reward.
C27_Witness ==
    /\ Playing
    /\ c4.last.legal
    /\ Pieces(c4.board) = Rows * Cols
    /\ HasLine(c4.board, c4.last.player)
    /\ c4.last.done
    /\ c4.last.game_reward = 0

\* A line on a board with room: done, reward 10 through Game.step.
C27_WonWithRoom ==
    /\ Playing
    /\ c4.last.legal
    /\ HasLine(c4.board, c4.last.player)
    /\ HasRoom(c4.board)
    /\ c4.last.done
    /\ c4.last.game_reward = 10

\* The loop waits in getch().
AtKeyRead == (gl.pc = "loop" /\ gl.game.game_over = 0) \/ gl.pc = "any_key"

\* The pass of the loop from this state to the next has read a key.
KeyRead == gl.pc = "loop" /\ gl'.keys = gl.keys + 1

\* The totals of the loop.
Totals(loop) == <<loop.total_points, loop.total_steps>>

C28_NextLevelInEditMode ==
    /\ gl.pc = "loop"
    /\ gl.keys = 2
    /\ gl.last.key = "Q"
    /\ gl.game.game_over = 0
    /\ gl.editing
    /\ gl.game.is_editing

====
